---- MODULE Spec2Model ----
(***************************************************************************)
(* A model of the OFX client of helaoban/ofxclient.                        *)
(*                                                                         *)
(*   Spec       the Client session: the message builder (_message and the  *)
(*              five query_* entry points, authenticated_query) and the    *)
(*              transport of Client.post / Client._do_post.                *)
(*                                                                         *)
(*   SpecClean  clean_ofx_xml, the markup normalizer (yofx/parse.py).       *)
(*                                                                         *)
(*   SpecDec    to_decimal, the decimal normalizer (ofxclient/parse.py).    *)
(*                                                                         *)
(*   SpecParse  parse_ofx down to parse_transaction, in both source         *)
(*              iterations (ofxclient/parse.py and yofx/parse.py).          *)
(*                                                                         *)
(* Strings that the code inspects character by character are sequences of  *)
(* one-character strings.                                                  *)
(***************************************************************************)
EXTENDS Integers, Sequences, FiniteSets, TLC

(***************************************************************************)
(* Bounds of the model.                                                    *)
(***************************************************************************)
\* number of query_* calls made on one Client
MaxQueries == 2
\* number of markup pieces an input document of clean_ofx_xml is made of
MaxPieces == 3
\* length of the enumerated arguments of to_decimal
MaxDecLen == 3
\* number of STMTTRN nodes in a parsed statement
MaxTxns == 2
\* number of ACCTINFO nodes in a document
MaxAcctInfo == 3
\* number of STMTRS nodes in a document
MaxStatements == 2
\* number of lines in front of the first tag of a document
MaxLines == 3
\* number of position nodes in an investment statement
MaxPositions == 2
\* number of concurrent callers that share one Client, each of which calls
\* next_cookie once
MaxCallers == 3

(***************************************************************************)
(* Program constants.                                                      *)
(***************************************************************************)
\* client.py:135   self.cookie = 3
InitialCookie == 3
\* client.py:308   if response.status_code != 200
HTTP_OK == 200

VARIABLES
    \* ---- Client (client.py:88-144)
    cookie,        \* Client.cookie, the message counter
    ofx_version,   \* Client.ofx_version
    uid_count,     \* how many unique ids ofx_uid() / uuid.uuid4() have produced
    built,         \* the request messages built so far, oldest first
    callers,       \* per concurrent caller of next_cookie: its position in the
                   \* method, the value it loaded, the values it was returned
    \* ---- one execution of Client.post (client.py:234-251)
    pc,            \* "idle" | "wait1" | "wait2" | "done" | "raised"
    query,         \* the argument of post: the envelope of authenticated_query
    posts,         \* the POSTs issued by this execution, oldest first
    resps,         \* the responses received by this execution, oldest first
    jar,           \* the cookies held by the requests.Session of this execution
    parsed,        \* the body handed to parse_ofx, or NotParsed
    \* ---- one call of clean_ofx_xml (yofx/parse.py:102-130)
    ofx_str,       \* its argument
    clean_pc,      \* "call" | "returned" | "raised"
    cleaned,       \* the string it returned
    \* ---- one call of to_decimal (ofxclient/parse.py:1050-1065)
    dec_in,        \* tag.contents[0], the text of its argument
    dec_pc,        \* "call" | "returned" | "InvalidOperation"
    dec_out,       \* the Decimal it returned
    \* ---- one call of parse_ofx
    p_doc,         \* the STMTTRN nodes of the document's statement, in document order
    p_fail_fast,   \* the fail_fast argument
    p_impl,        \* which parse_ofx ran: "ofxclient" | "yofx" | "" (none yet)
    p_pc,          \* "call" | "returned" | "raised"
    p_result,      \* the statement returned: transactions, discarded_entries
    p_error,       \* the class of the exception raised, or ""
    \* ---- one call of one of the parser's helper functions
    fn,            \* the function called, "" before the call
    arg,           \* its argument
    ret            \* what it returned or raised, <<>> before the call

clientVars == <<cookie, ofx_version, uid_count, built, callers>>
postVars == <<pc, query, posts, resps, jar, parsed>>
cleanVars == <<ofx_str, clean_pc, cleaned>>
decVars == <<dec_in, dec_pc, dec_out>>
parseVars == <<p_doc, p_fail_fast, p_impl, p_pc, p_result, p_error>>
callVars == <<fn, arg, ret>>
vars == <<cookie, ofx_version, uid_count, built, callers, pc, query, posts, resps, jar, parsed,
          ofx_str, clean_pc, cleaned, dec_in, dec_pc, dec_out,
          p_doc, p_fail_fast, p_impl, p_pc, p_result, p_error, fn, arg, ret>>

(***************************************************************************)
(* The HTTP side: what a server can answer.                                *)
(***************************************************************************)
\* The absence of a header (dict.get(..., None)).
NoHeader == "<none>"
\* parse_ofx has not been called.
NotParsed == "<not parsed>"
\* No query is being posted.
NoQuery == <<>>

\* Status codes a server can answer with: 200, another 2xx, a 3xx that
\* requests does not follow, a client error and a server error.
Statuses == {200, 204, 304, 404, 500}
\* response.text: empty, or an OFX document
Bodies == {"", "OFXDOC"}
\* The Set-Cookie header of a response: absent, a cookie for the host the
\* request went to, or a cookie scoped to a foreign domain.
SetCookies == {NoHeader, "sid=A", "sid=B", "sid=C; Domain=elsewhere.example"}
Responses == [status : Statuses, text : Bodies, set_cookie : SetCookies]

IsSuccess(status) == 200 <= status /\ status < 300

\* requests.Response.raise_for_status(): raises HTTPError for a 4xx or a 5xx
\* status and returns normally for every other status.
raise_for_status(status) == 400 <= status /\ status < 600

\* _do_post, client.py:308-311: the call raises exactly when the status is not
\* 200 and raise_for_status raises.
DoPostRaises(resp) == resp.status # HTTP_OK /\ raise_for_status(resp.status)

\* requests.Session keeps the cookies of a response in its jar when the cookie
\* policy accepts them (a cookie scoped to a domain that is not the request's
\* host is refused); post reads the raw header only to decide on the retry.
SessionExtractCookies(set_cookie) ==
    IF set_cookie \in {"sid=A", "sid=B"} THEN {set_cookie} ELSE {}

\* DEFAULT_HEADERS, client.py:26-31
DEFAULT_HEADERS ==
    ("Accept" :> "*/*, application/x-ofx") @@
    ("User-Agent" :> "httpclient") @@
    ("Content-Type" :> "application/x-ofx") @@
    ("Connection" :> "Keep-Alive")

\* _do_post, client.py:288-290: DEFAULT_HEADERS, then the extra headers.
RequestHeaders(extra_headers) == extra_headers @@ DEFAULT_HEADERS

\* No extra headers: both calls of _do_post in post pass none.
NoExtraHeaders == [h \in {} |-> ""]

(***************************************************************************)
(* The message builder.                                                    *)
(***************************************************************************)
QueryKinds == {"profile", "account_list", "bank", "credit_card", "brokerage"}

\* ofx_uid() and uuid.uuid4(): a value never produced before.
FreshUid(n) == n + 1

\* next_cookie that adds two.
next_cookie_AddsTwo(c) == c + 2

\* Client.next_cookie, client.py:313-315: the value stored for the value
\* loaded.  No method of the Client calls it.
next_cookie(c) == c + 1

\* Client._message, client.py:433-446: <{msg_type}MSGSRQV1> holding
\* <{trn_type}TRNRQ> holding TRNUID and the request.
Message(msg_type, trn_type, trnuid, request) ==
    [ outer    |-> msg_type \o "MSGSRQV1",
      trn      |-> trn_type \o "TRNRQ",
      children |-> <<"TRNUID", request.name>>,
      values   |-> ("TRNUID" :> trnuid),
      fields   |-> request.fields ]

\* Client._profile_request, client.py:338-351: written out, not built by _message.
ProfileRequest(trnuid) ==
    [ outer    |-> "PROFMSGSRQV1",
      trn      |-> "PROFTRNRQ",
      children |-> <<"TRNUID", "PROFRQ">>,
      values   |-> ("TRNUID" :> trnuid),
      fields   |-> {"CLIENTROUTING", "DTPROFUP"} ]

\* The req of _account_request (client.py:357-361), _bare_request (373-385),
\* _credit_card_request (393-403) and _investment_request (412-429): the
\* name of its element as written, and the elements it holds a value in.
AccountReq == [name |-> "ACCTINFORQ", fields |-> {"DTACCTUP"}]
BareReq == [name |-> "STMRQ", fields |-> {"BANKID", "ACCTID", "ACCTTYPE", "DSTART", "INCLUDE"}]
CreditCardReq == [name |-> "CCSTMRQ", fields |-> {"ACCTID", "DSTART", "INCLUDE"}]
InvestmentReq ==
    [name |-> "INVSTMTRQ",
     fields |-> {"BROKERID", "ACCTID", "DSTART", "INCLUDE", "INCOO", "INCBAL"}]

\* _account_request, _bare_request, _credit_card_request, _investment_request
\* (client.py:353-430) and _profile_request: the content block of each kind.
BuildRequest(kind, trnuid) ==
    CASE kind = "profile"      -> ProfileRequest(trnuid)
      [] kind = "account_list" -> Message("SIGNUP", "ACCTINFO", trnuid, AccountReq)
      [] kind = "bank"         -> Message("BANK", "STMT", trnuid, BareReq)
      [] kind = "credit_card"  -> Message("CREDITCARD", "CCSTMT", trnuid, CreditCardReq)
      [] kind = "brokerage"    -> Message("INVSTMT", "INVSTMT", trnuid, InvestmentReq)

\* Client._sign_on, client.py:317-336: the children of SONRQ.
SignOn ==
    <<"DTCLIENT", "USERID", "USERPASS", "LANGUAGE", "FI", "APPID", "APPVER", "CLIENTUID">>

\* Client.authenticated_query, client.py:163-187: a header with a fresh
\* NEWFILEUID, then <OFX> holding the sign-on and the content block.
\* The OFXHEADER preamble of client.py:148-156 and 179-185
Header(fileuid) == [part |-> "OFXHEADER", newfileuid |-> fileuid]

authenticated_query(fileuid, msg) ==
    << Header(fileuid),
       [ part |-> "OFX",
         children |-> << [outer |-> "SIGNONMSGSRQV1", trn |-> "SONRQ", children |-> SignOn],
                         msg >> ] >>

\* clean_query of ofxclient/helpers, which is not among the sources: it is
\* taken to tidy the white space of the query, which the model does not
\* hold, and to leave its elements as they are.
clean_query(q) == q

\* Wrap whose header is that of the query it is given.
Wrap_SameHeader(fileuid, q) == <<Head(q)>> \o clean_query(q)

\* Client._wrap / _add_header, client.py:146-161: _do_post prepends a header
\* with a fresh NEWFILEUID to the query it is given.
Wrap(fileuid, q) == <<Header(fileuid)>> \o clean_query(q)

\* One POST as it goes on the wire (client.py:281-299): the wrapped body, the
\* headers _do_post passes, and the Cookie header the session adds from its jar.
Request(fileuid, q, extra_headers, session_jar) ==
    [ body    |-> Wrap(fileuid, q),
      headers |-> RequestHeaders(extra_headers),
      session_cookies |-> session_jar ]

\* The Cookie header of a request on the wire: one passed by _do_post, else
\* the one the session adds when its jar holds cookies.
WireCookie(req) ==
    IF "Cookie" \in DOMAIN req.headers THEN {req.headers["Cookie"]}
    ELSE req.session_cookies

(***************************************************************************)
(* Init: a Client just constructed, no query posted.                       *)
(***************************************************************************)
OfxVersions == {"102", "103", "220"}

\* No call of clean_ofx_xml is in progress.
CleanIdle ==
    /\ ofx_str = <<>>
    /\ clean_pc = "returned"
    /\ cleaned = <<>>

\* Decimal(0)
DecimalZero == [neg |-> FALSE, coeff |-> 0, exp |-> 0]

\* No call of to_decimal is in progress.
DecIdle ==
    /\ dec_in = <<>>
    /\ dec_pc = "returned"
    /\ dec_out = DecimalZero

\* Statement(), ofxclient/parse.py:236-244: no transactions, nothing discarded.
EmptyStatement == [transactions |-> <<>>, discarded_entries |-> <<>>]

\* No helper function has been called.
CallIdle ==
    /\ fn = ""
    /\ arg = <<>>
    /\ ret = <<>>

\* No call of parse_ofx is in progress.
ParseIdle ==
    /\ p_doc = <<>>
    /\ p_fail_fast = TRUE
    /\ p_impl = ""
    /\ p_pc = "returned"
    /\ p_result = EmptyStatement
    /\ p_error = ""

\* The callers that share the Client, none of them inside next_cookie.
Callers == 1..MaxCallers

NoCalls == [c \in Callers |-> [at |-> "idle", loaded |-> 0, returned |-> <<>>]]

ClientInit ==
    /\ cookie = InitialCookie
    /\ uid_count = 0
    /\ built = <<>>
    /\ callers = NoCalls
    /\ pc = "idle"
    /\ query = NoQuery
    /\ posts = <<>>
    /\ resps = <<>>
    /\ jar = {}
    /\ parsed = NotParsed

Init ==
    /\ ClientInit
    /\ ofx_version \in OfxVersions
    /\ CleanIdle
    /\ DecIdle
    /\ ParseIdle
    /\ CallIdle

(***************************************************************************)
(* query_*: build the content block (one TRNUID), wrap it with               *)
(* authenticated_query (one NEWFILEUID), call post, which opens a fresh     *)
(* session and issues the first POST (_wrap draws another NEWFILEUID).      *)
(***************************************************************************)
StartQuery(kind) ==
    /\ pc \in {"idle", "done", "raised"}
    /\ Len(built) < MaxQueries
    /\ LET trnuid  == FreshUid(uid_count)
           fileuid == FreshUid(trnuid)
           hdruid  == FreshUid(fileuid)
           msg     == BuildRequest(kind, trnuid)
           q       == authenticated_query(fileuid, msg)
       IN /\ built' = Append(built, msg)
          /\ uid_count' = hdruid
          /\ query' = q
          /\ posts' = <<Request(hdruid, q, NoExtraHeaders, {})>>
    /\ resps' = <<>>
    /\ jar' = {}
    /\ parsed' = NotParsed
    /\ pc' = "wait1"
    /\ UNCHANGED <<cookie, ofx_version, callers>>
    /\ UNCHANGED <<cleanVars, decVars, parseVars, callVars>>

query_profile == StartQuery("profile")
query_account_list == StartQuery("account_list")
query_bank_accounts == StartQuery("bank")
query_credit_cards == StartQuery("credit_card")
query_brokerage_accounts == StartQuery("brokerage")

(***************************************************************************)
(* post, client.py:240-251, from the first response on.                    *)
(***************************************************************************)
\* client.py:241-245: retry when the body is empty and Set-Cookie is present.
ShouldRetry(resp) == Len(resp.text) = 0 /\ resp.set_cookie # NoHeader

FirstResponse ==
    /\ pc = "wait1"
    /\ \E resp \in Responses :
        /\ resps' = Append(resps, resp)
        /\ jar' = jar \cup SessionExtractCookies(resp.set_cookie)
        /\ IF DoPostRaises(resp)
           THEN /\ pc' = "raised"
                /\ UNCHANGED <<posts, parsed, uid_count>>
           ELSE IF ShouldRetry(resp)
           THEN /\ pc' = "wait2"
                /\ uid_count' = FreshUid(uid_count)
                /\ posts' = Append(posts,
                       Request(FreshUid(uid_count), query, NoExtraHeaders, jar'))
                /\ UNCHANGED parsed
           ELSE /\ pc' = "done"
                /\ parsed' = resp.text
                /\ UNCHANGED <<posts, uid_count>>
    /\ UNCHANGED <<cookie, ofx_version, built, query, callers>>
    /\ UNCHANGED <<cleanVars, decVars, parseVars, callVars>>

\* client.py:250-251: the second response is never inspected for a retry.
SecondResponse ==
    /\ pc = "wait2"
    /\ \E resp \in Responses :
        /\ resps' = Append(resps, resp)
        /\ jar' = jar \cup SessionExtractCookies(resp.set_cookie)
        /\ IF DoPostRaises(resp)
           THEN /\ pc' = "raised"
                /\ UNCHANGED parsed
           ELSE /\ pc' = "done"
                /\ parsed' = resp.text
    /\ UNCHANGED <<cookie, ofx_version, built, query, posts, uid_count, callers>>
    /\ UNCHANGED <<cleanVars, decVars, parseVars, callVars>>

Next ==
    \/ query_profile
    \/ query_account_list
    \/ query_bank_accounts
    \/ query_credit_cards
    \/ query_brokerage_accounts
    \/ FirstResponse
    \/ SecondResponse

Spec == Init /\ [][Next]_vars

(***************************************************************************)
(* Claims about the transport and the message builder (Spec).              *)
(***************************************************************************)
\* The name=value pair of a Set-Cookie header, without its attributes.
CookiePair(set_cookie) ==
    IF set_cookie = "sid=C; Domain=elsewhere.example" THEN "sid=C" ELSE set_cookie

\* C1: an execution of post issues at most two POSTs, and a second POST is
\* issued only when the first response had a success status, a zero-length
\* body and a Set-Cookie header; no third POST follows any second response.
C1_AtMostOneRetry ==
    /\ Len(posts) <= 2
    /\ Len(posts) = 2 =>
        /\ IsSuccess(resps[1].status)
        /\ Len(resps[1].text) = 0
        /\ resps[1].set_cookie # NoHeader

\* C2: the retry POST carries a Cookie header whose value comes from the
\* Set-Cookie header of the first response.
C2_RetryCarriesCookie ==
    Len(posts) = 2 =>
        WireCookie(posts[2]) = {CookiePair(resps[1].set_cookie)}

\* C3: a response whose status is not a success status ends post with an
\* error: it is the last POST of the execution and parse_ofx is not called.
C3_NonSuccessIsTerminal ==
    \A i \in 1..Len(resps) :
        ~IsSuccess(resps[i].status) =>
            /\ pc = "raised"
            /\ Len(posts) = i
            /\ parsed = NotParsed

\* C4: the counter starts at 3 and goes up by one per message built, every
\* message carries it as CLTCOOKIE, so successive messages carry strictly
\* increasing CLTCOOKIE values and distinct TRNUID values.
C4_CounterSerialized ==
    /\ cookie = InitialCookie + Len(built)
    /\ \A i \in 1..Len(built) :
        /\ "CLTCOOKIE" \in DOMAIN built[i].values
        /\ built[i].values["CLTCOOKIE"] = InitialCookie + i
    /\ \A i, j \in 1..Len(built) :
        i < j => built[i].values["TRNUID"] # built[j].values["TRNUID"]

\* The parts of a POST body of one kind, in the order they stand in it.
Parts(body, part) == SelectSeq(body, LAMBDA x : x.part = part)

\* The message blocks of an <OFX> root that are (or are not) sign-on blocks.
SignOnBlocks(root) == SelectSeq(root.children, LAMBDA b : b.outer = "SIGNONMSGSRQV1")
ContentBlocks(root) == SelectSeq(root.children, LAMBDA b : b.outer # "SIGNONMSGSRQV1")

\* C21: the body of every POST is one envelope: exactly one OFXHEADER
\* preamble, then one <OFX> root that holds exactly one SIGNONMSGSRQV1/SONRQ
\* block followed by zero or one content message block.
C21_OneEnvelope ==
    \A i \in 1..Len(posts) :
        /\ Len(Parts(posts[i].body, "OFXHEADER")) = 1
        /\ Len(Parts(posts[i].body, "OFX")) = 1
        /\ posts[i].body[1].part = "OFXHEADER"
        /\ \A k \in 1..Len(posts[i].body) :
               posts[i].body[k].part = "OFX" =>
                   /\ Len(SignOnBlocks(posts[i].body[k])) = 1
                   /\ posts[i].body[k].children[1].trn = "SONRQ"
                   /\ Len(ContentBlocks(posts[i].body[k])) <= 1

\* The ofx_version of a session as a number.
VersionNumber == ("102" :> 102) @@ ("103" :> 103) @@ ("220" :> 220)

\* The children of the SONRQ of every sign-on block of a body.
SignOnsOf(body) ==
    UNION { { SignOnBlocks(Parts(body, "OFX")[k])[j].children :
                j \in 1..Len(SignOnBlocks(Parts(body, "OFX")[k])) } :
            k \in 1..Len(Parts(body, "OFX")) }

\* The sign-on blocks of the bodies posted so far.
PostedSignOns == UNION {SignOnsOf(posts[i].body) : i \in 1..Len(posts)}

\* C22: the sign-on block holds CLIENTUID exactly when the session's
\* ofx_version is 103 or higher.
C22_ClientUidFromVersion103 ==
    \A signon \in PostedSignOns :
        (\E k \in 1..Len(signon) : signon[k] = "CLIENTUID")
            <=> VersionNumber[ofx_version] >= 103

\* What the five request kinds are to be built as: the message set, the
\* transaction wrapper, the payload element and what the payload names.
RequestShapes ==
    { [outer |-> "PROFMSGSRQV1", trn |-> "PROFTRNRQ", payload |-> "PROFRQ", names |-> {}],
      [outer |-> "SIGNUPMSGSRQV1", trn |-> "ACCTINFOTRNRQ", payload |-> "ACCTINFORQ", names |-> {}],
      [outer |-> "BANKMSGSRQV1", trn |-> "STMTTRNRQ", payload |-> "STMTRQ",
       names |-> {"BANKID", "ACCTID", "ACCTTYPE", "DSTART"}],
      [outer |-> "CREDITCARDMSGSRQV1", trn |-> "CCSTMTTRNRQ", payload |-> "CCSTMTRQ", names |-> {}],
      [outer |-> "INVSTMTMSGSRQV1", trn |-> "INVSTMTTRNRQ", payload |-> "INVSTMTRQ", names |-> {}] }

\* C23: every request built is <KIND>MSGSRQV1 holding <TYPE>TRNRQ holding
\* TRNUID, CLTCOOKIE and the payload of its kind: PROFRQ, ACCTINFORQ, STMTRQ
\* (with bank id, account id, account type and start date), CCSTMTRQ or
\* INVSTMTRQ.
C23_RequestKinds ==
    \A i \in 1..Len(built) :
        \E shape \in RequestShapes :
            /\ built[i].outer = shape.outer
            /\ built[i].trn = shape.trn
            /\ built[i].children = <<"TRNUID", "CLTCOOKIE", shape.payload>>
            /\ shape.names \subseteq built[i].fields

\* What a step of post keeps: the session, the query, and in the retry the
\* query of the first POST behind a header with another NEWFILEUID.
PostKeeps ==
    pc \in {"wait1", "wait2"} =>
        /\ cookie' = cookie
        /\ ofx_version' = ofx_version
        /\ built' = built
        /\ query' = query
        /\ Len(posts') = 2 =>
              /\ Tail(posts'[2].body) = Tail(posts'[1].body)
              /\ Tail(posts'[2].body) = query
              /\ posts'[2].body[1].part = "OFXHEADER"
              /\ posts'[2].body[1].newfileuid # posts'[1].body[1].newfileuid

\* C29: a step of post changes nothing of the session (the message counter,
\* the ofx_version, the messages built), and the retry re-sends the query of
\* the first POST, TRNUID and payload included, behind a header whose
\* NEWFILEUID is another.
C29_PostKeepsSessionAndQuery == [][PostKeeps]_vars

\* A retry has been posted for a bank-statement request.
C29_Witness ==
    /\ Len(posts) = 2
    /\ pc = "wait2"
    /\ built[Len(built)].outer = "BANKMSGSRQV1"
    /\ Tail(posts[2].body)[2].children[2] = built[Len(built)]

(***************************************************************************)
(* clean_ofx_xml, yofx/parse.py:102-130.  (ofxclient/parse.py:118-146 is   *)
(* the same text; it names its argument ofx_string and the tag tag_nam in  *)
(* three places, names that are bound nowhere.)                            *)
(***************************************************************************)
LowerLetters == <<"a", "b", "c", "d", "e", "f", "g", "h", "i", "j", "k", "l", "m", "n", "o", "p", "q", "r", "s", "t", "u", "v", "w", "x", "y", "z">>
UpperLetters == <<"A", "B", "C", "D", "E", "F", "G", "H", "I", "J", "K", "L", "M", "N", "O", "P", "Q", "R", "S", "T", "U", "V", "W", "X", "Y", "Z">>
Digits == <<"0", "1", "2", "3", "4", "5", "6", "7", "8", "9">>

\* str.upper() on one character
UpperOf == [c \in {LowerLetters[i] : i \in 1..Len(LowerLetters)} |->
               UpperLetters[CHOOSE i \in 1..Len(LowerLetters) : LowerLetters[i] = c]]

UpperChar(c) == IF c \in DOMAIN UpperOf THEN UpperOf[c] ELSE c

\* str.upper()
Upper(str) == [i \in 1..Len(str) |-> UpperChar(str[i])]

\* The character class [a-z0-9_\.] under (?i)
NameChars ==
    {LowerLetters[i] : i \in 1..Len(LowerLetters)}
        \cup {UpperLetters[i] : i \in 1..Len(UpperLetters)}
        \cup {Digits[i] : i \in 1..Len(Digits)}
        \cup {"_", "."}

IsNameChar(c) == c \in NameChars

\* str.startswith
StartsWith(str, prefix) ==
    Len(str) >= Len(prefix) /\ SubSeq(str, 1, Len(prefix)) = prefix

\* The end of the longest run of name characters that starts at i.
RECURSIVE NameRunEnd(_, _)
NameRunEnd(str, i) ==
    IF i <= Len(str) /\ IsNameChar(str[i]) THEN NameRunEnd(str, i + 1) ELSE i

\* A match at position i of <[a-z0-9_\.]+> preceded by a slash that is
\* "required" (</name>), "optional" (</?name>) or "none" (<name>): the
\* position of its closing ">", or 0 when there is no match at i.
TagMatchEnd(str, i, slash) ==
    IF i > Len(str) \/ str[i] # "<" THEN 0
    ELSE LET has_slash == i + 1 <= Len(str) /\ str[i + 1] = "/"
             k == IF has_slash /\ slash # "none" THEN i + 2 ELSE i + 1
             e == NameRunEnd(str, k)
         IN IF slash = "required" /\ ~has_slash THEN 0
            ELSE IF e > k /\ e <= Len(str) /\ str[e] = ">" THEN e ELSE 0

\* re.findall(r"(?i)</([a-z0-9_\.]+)>", ofx_str), upper-cased (lines 104-107)
RECURSIVE ClosingTagsFrom(_, _)
ClosingTagsFrom(str, i) ==
    IF i > Len(str) THEN {}
    ELSE LET e == TagMatchEnd(str, i, "required")
         IN IF e = 0 THEN ClosingTagsFrom(str, i + 1)
            ELSE {Upper(SubSeq(str, i + 2, e - 1))} \cup ClosingTagsFrom(str, e + 1)

ClosingTags(str) == ClosingTagsFrom(str, 1)

\* re.split(r"(?i)(</?[a-z0-9_\.]+>)", ofx_str) (line 112): text, tag, text,
\* ..., text; a text may be empty.
RECURSIVE SplitFrom(_, _, _)
SplitFrom(str, start, i) ==
    IF i > Len(str) THEN <<SubSeq(str, start, Len(str))>>
    ELSE LET e == TagMatchEnd(str, i, "optional")
         IN IF e = 0 THEN SplitFrom(str, start, i + 1)
            ELSE <<SubSeq(str, start, i - 1), SubSeq(str, i, e)>>
                     \o SplitFrom(str, e + 1, e + 1)

Tokens(str) == SplitFrom(str, 1, 1)

\* re.findall(r"(?i)<([a-z0-9_\.]+)>", token) (line 126): the names matched.
RECURSIVE OpenNamesFrom(_, _)
OpenNamesFrom(token, i) ==
    IF i > Len(token) THEN <<>>
    ELSE LET e == TagMatchEnd(token, i, "none")
         IN IF e = 0 THEN OpenNamesFrom(token, i + 1)
            ELSE <<SubSeq(token, i + 1, e - 1)>> \o OpenNamesFrom(token, e + 1)

\* lines 115-120: the classification of a token
is_closing_tag(token) == StartsWith(token, <<"<", "/">>)
is_processing_tag(token) == StartsWith(token, <<"<", "?">>)
is_cdata(token) == StartsWith(token, <<"<", "!">>)
is_tag(token) == StartsWith(token, <<"<">>) /\ ~is_cdata(token)
is_open_tag(token) ==
    is_tag(token) /\ ~is_closing_tag(token) /\ ~is_processing_tag(token)

\* last_open_tag = None
NoOpenTag == <<>>

ClosingTagOf(name) == <<"<", "/">> \o name \o <<">">>

\* The state of the loop of lines 111-129 before the first token.
CleanStart == [cleaned |-> <<>>, last_open_tag |-> NoOpenTag, raised |-> FALSE]

\* CleanStep with the closing tag written after the token instead of before.
CleanStep_CloseAfter(st, token, closing_tags) ==
    IF st.raised THEN st
    ELSE
    LET flush   == is_tag(token) /\ st.last_open_tag # NoOpenTag
        closed  == IF flush THEN st.cleaned \o token \o ClosingTagOf(st.last_open_tag)
                   ELSE st.cleaned \o token
        pending == IF flush THEN NoOpenTag ELSE st.last_open_tag
        names   == OpenNamesFrom(token, 1)
    IN IF is_open_tag(token) /\ names = <<>>
       THEN [cleaned |-> st.cleaned, last_open_tag |-> pending, raised |-> TRUE]
       ELSE [ cleaned |-> closed,
              last_open_tag |->
                  IF is_open_tag(token) /\ Upper(names[1]) \notin closing_tags
                  THEN names[1] ELSE pending,
              raised |-> FALSE ]

\* CleanStep without "last_open_tag = None" after the closing tag is written.
CleanStep_NoReset(st, token, closing_tags) ==
    IF st.raised THEN st
    ELSE
    LET flush   == is_tag(token) /\ st.last_open_tag # NoOpenTag
        closed  == IF flush THEN st.cleaned \o ClosingTagOf(st.last_open_tag)
                   ELSE st.cleaned
        names   == OpenNamesFrom(token, 1)
    IN IF is_open_tag(token) /\ names = <<>>
       THEN [cleaned |-> closed, last_open_tag |-> st.last_open_tag, raised |-> TRUE]
       ELSE [ cleaned |-> closed \o token,
              last_open_tag |->
                  IF is_open_tag(token) /\ Upper(names[1]) \notin closing_tags
                  THEN names[1] ELSE st.last_open_tag,
              raised |-> FALSE ]

\* One round of the loop of lines 114-129.  findall(...)[0] raises IndexError
\* when the token holds no <name>.
CleanStep(st, token, closing_tags) ==
    IF st.raised THEN st
    ELSE
    LET flush   == is_tag(token) /\ st.last_open_tag # NoOpenTag
        closed  == IF flush THEN st.cleaned \o ClosingTagOf(st.last_open_tag)
                   ELSE st.cleaned
        pending == IF flush THEN NoOpenTag ELSE st.last_open_tag
        names   == OpenNamesFrom(token, 1)
    IN IF is_open_tag(token) /\ names = <<>>
       THEN [cleaned |-> closed, last_open_tag |-> pending, raised |-> TRUE]
       ELSE [ cleaned |-> closed \o token,
              last_open_tag |->
                  IF is_open_tag(token) /\ Upper(names[1]) \notin closing_tags
                  THEN names[1] ELSE pending,
              raised |-> FALSE ]

RECURSIVE CleanLoop(_, _, _, _)
CleanLoop(st, tokens, i, closing_tags) ==
    IF i > Len(tokens) THEN st
    ELSE CleanLoop(CleanStep(st, tokens[i], closing_tags), tokens, i + 1, closing_tags)

\* clean_ofx_xml: the final state of the loop; the function returns its
\* cleaned unless raised.
clean_ofx_xml(str) == CleanLoop(CleanStart, Tokens(str), 1, ClosingTags(str))

(***************************************************************************)
(* SpecClean: clean_ofx_xml applied to one document.                       *)
(***************************************************************************)
\* The pieces the input documents are made of: opening and closing tags in
\* both letter cases, text, a stray "<", a processing instruction, a
\* comment, an opening tag with an attribute.
Pieces ==
    { <<"<", "M", ">">>,
      <<"<", "/", "M", ">">>,
      <<"<", "m", ">">>,
      <<"<", "B", ">">>,
      <<"<", "/", "B", ">">>,
      <<"x">>,
      <<"<">>,
      <<"<", "?", "p", ">">>,
      <<"<", "!", "c", ">">>,
      <<"<", "M", " ", "a", ">">> }

RECURSIVE DocsOfLen(_)
DocsOfLen(n) ==
    IF n = 0 THEN {<<>>}
    ELSE {p \o d : p \in Pieces, d \in DocsOfLen(n - 1)}

\* <MEMO>Coffee<DTPOSTED>20230101
MemoFixture == 
    <<"<", "M", "E", "M", "O", ">", "C", "o", "f", "f", "e", "e", "<", "D", "T", "P", "O", "S", "T", "E", "D", ">", "2", "0", "2", "3", "0", "1", "0", "1">>

\* Longer documents: leaves inside containers.
NestedFixtures ==
    { <<"<", "O", "F", "X", ">", "<", "M", "E", "M", "O", ">", "C", "o", "f", "f", "e", "e", "<", "D", "T", "P", "O", "S", "T", "E", "D", ">", "2", "0", "2", "3", "0", "1", "0", "1", "<", "/", "O", "F", "X", ">">>,
      <<"<", "B", ">", "<", "M", ">", "x", "<", "m", ">", "x", "<", "/", "B", ">">>,
      <<"<", "B", ">", "<", "B", ">", "<", "M", ">", "x", "<", "/", "B", ">", "<", "M", ">", "x", "<", "/", "B", ">">>,
      <<"<", "a", ">", "<", "M", ">", "x", "<", "/", "M", ">", "<", "M", ">", "x", "<", "/", "a", ">">> }

Docs == UNION {DocsOfLen(n) : n \in 0..MaxPieces} \cup {MemoFixture} \cup NestedFixtures

InitClean ==
    /\ ClientInit
    /\ ofx_version = "220"
    /\ ofx_str \in Docs
    /\ clean_pc = "call"
    /\ cleaned = <<>>
    /\ DecIdle
    /\ ParseIdle
    /\ CallIdle

CleanOfxXml ==
    /\ clean_pc = "call"
    /\ LET st == clean_ofx_xml(ofx_str)
       IN /\ clean_pc' = IF st.raised THEN "raised" ELSE "returned"
          /\ cleaned' = IF st.raised THEN <<>> ELSE st.cleaned
    /\ UNCHANGED ofx_str
    /\ UNCHANGED <<clientVars, postVars, decVars, parseVars, callVars>>

\* clean_ofx_xml applied to the string that clean_ofx_xml returned
CleanAgain ==
    /\ clean_pc = "returned"
    /\ fn = ""
    /\ fn' = "clean_ofx_xml"
    /\ arg' = cleaned
    /\ ret' = clean_ofx_xml(cleaned)
    /\ UNCHANGED <<cleanVars, clientVars, postVars, decVars, parseVars>>

NextClean == CleanOfxXml \/ CleanAgain

SpecClean == InitClean /\ [][NextClean]_vars

(***************************************************************************)
(* Claims about clean_ofx_xml (SpecClean).                                 *)
(***************************************************************************)
\* Token k of the split is an opening tag <name> whose name, upper-cased, has
\* no closing tag in the document.
IsLeafOpen(tokens, k, closing_tags) ==
    /\ is_open_tag(tokens[k])
    /\ OpenNamesFrom(tokens[k], 1) # <<>>
    /\ Upper(OpenNamesFrom(tokens[k], 1)[1]) \notin closing_tags

\* The last tag token before token k, or 0.
PrevTag(tokens, k) ==
    IF \E i \in 1..(k - 1) : is_tag(tokens[i])
    THEN CHOOSE i \in 1..(k - 1) :
            is_tag(tokens[i]) /\ \A j \in (i + 1)..(k - 1) : ~is_tag(tokens[j])
    ELSE 0

\* What the claim asks to stand before token k: the closing tag of the leaf
\* opened by the previous tag token, when token k is a tag token and the
\* previous tag token opened a leaf.
SynthesizedBefore(tokens, k, closing_tags) ==
    LET i == PrevTag(tokens, k)
    IN IF is_tag(tokens[k]) /\ i # 0 /\ IsLeafOpen(tokens, i, closing_tags)
       THEN ClosingTagOf(OpenNamesFrom(tokens[i], 1)[1])
       ELSE <<>>

RECURSIVE ExpectedFrom(_, _, _)
ExpectedFrom(tokens, k, closing_tags) ==
    IF k > Len(tokens) THEN <<>>
    ELSE SynthesizedBefore(tokens, k, closing_tags) \o tokens[k]
             \o ExpectedFrom(tokens, k + 1, closing_tags)

C27_CleanIdempotent ==
    fn = "clean_ofx_xml" => (~ret.raised /\ ret.cleaned = cleaned)

\* The second pass was made over a document in which the first pass closed
\* two leaves.
C27_Witness ==
    /\ fn = "clean_ofx_xml"
    /\ ofx_str = <<"<", "B", ">", "<", "M", ">", "x", "<", "m", ">", "x", "<", "/", "B", ">">>
    /\ arg = <<"<", "B", ">", "<", "M", ">", "x", "<", "/", "M", ">", "<", "m", ">", "x", "<", "/", "m", ">", "<", "/", "B", ">">>
    /\ ret.cleaned = arg

\* C8: clean_ofx_xml never raises.
C8_NeverRaises == clean_pc # "raised"

\* No "<" in a text.
NoMarkup(text) == \A i \in 1..Len(text) : text[i] # "<"

\* The tag tokens (the even positions of the split) nest: an opening tag is
\* pushed when every_open or when its name has a closing tag in the
\* document, a closing tag must name the top of the stack, and the stack is
\* empty at the end; the texts hold no markup.
RECURSIVE Nests(_, _, _, _, _)
Nests(tokens, k, stack, closing_tags, every_open) ==
    IF k > Len(tokens) THEN stack = <<>>
    ELSE IF k % 2 = 1
    THEN NoMarkup(tokens[k]) /\ Nests(tokens, k + 1, stack, closing_tags, every_open)
    ELSE IF is_closing_tag(tokens[k])
    THEN /\ stack # <<>>
         /\ ClosingTagOf(stack[Len(stack)]) = tokens[k]
         /\ Nests(tokens, k + 1, SubSeq(stack, 1, Len(stack) - 1), closing_tags, every_open)
    ELSE LET name == OpenNamesFrom(tokens[k], 1)[1]
         IN Nests(tokens, k + 1,
                  IF every_open \/ Upper(name) \in closing_tags
                  THEN Append(stack, name) ELSE stack,
                  closing_tags, every_open)

\* The precondition of C9: the elements with an explicit closing tag are
\* properly nested, every other opening tag is a leaf holding only text.
ProperInput(str) == Nests(Tokens(str), 1, <<>>, ClosingTags(str), FALSE)

\* Every opening tag is matched by a closing tag of the same name, in
\* properly nested order.
WellFormed(str) == Nests(Tokens(str), 1, <<>>, {}, TRUE)

\* Some tag token follows every leaf: the last tag token is not a leaf's
\* opening tag.
NoTrailingLeaf(str) ==
    LET tokens == Tokens(str)
        closing_tags == ClosingTags(str)
    IN \A k \in 1..Len(tokens) :
        (k % 2 = 0 /\ IsLeafOpen(tokens, k, closing_tags)) =>
            \E j \in (k + 1)..Len(tokens) : j % 2 = 0

RECURSIVE Strip(_)
Strip(str) ==
    IF str = <<>> THEN str
    ELSE IF Head(str) = " " THEN Strip(Tail(str))
    ELSE IF str[Len(str)] = " " THEN Strip(SubSeq(str, 1, Len(str) - 1))
    ELSE str

\* re.search(r".*a.*b", d): some a stands before some b
OccursBefore(str, a, b) ==
    \E i, j \in 1..Len(str) : i < j /\ str[i] = a /\ str[j] = b

Contains(str, c) == \E i \in 1..Len(str) : str[i] = c

\* d.replace(c, "")
Remove(str, c) == SelectSeq(str, LAMBDA x : x # c)

\* d.replace(a, b)
Replace(str, a, b) == [i \in 1..Len(str) |-> IF str[i] = a THEN b ELSE str[i]]

IsDigit(c) == c \in {Digits[i] : i \in 1..Len(Digits)}

DigitValue(c) == (CHOOSE i \in 1..Len(Digits) : Digits[i] = c) - 1

\* DecimalText that loses the first character of the contents.
DecimalText_DropFirst(text) ==
    LET d0 == Strip(IF text = <<>> THEN text ELSE Tail(text))
        d1 == IF OccursBefore(d0, ".", ",") THEN Remove(d0, ".") ELSE d0
        d2 == IF OccursBefore(d1, ",", ".") THEN Remove(d1, ",") ELSE d1
        d3 == IF ~Contains(d2, ".") /\ Contains(d2, ",")
              THEN Replace(d2, ",", ".") ELSE d2
        d4 == Remove(d3, " ")
    IN Remove(d4, "+")

\* DecimalText that tests the rule for "," before "." first.
DecimalText_CommaRuleFirst(text) ==
    LET d0 == Strip(text)
        d1 == IF OccursBefore(d0, ",", ".") THEN Remove(d0, ",") ELSE d0
        d2 == IF OccursBefore(d1, ".", ",") THEN Remove(d1, ".") ELSE d1
        d3 == IF ~Contains(d2, ".") /\ Contains(d2, ",")
              THEN Replace(d2, ",", ".") ELSE d2
        d4 == Remove(d3, " ")
    IN Remove(d4, "+")

\* lines 1051-1064: the text handed to decimal.Decimal
DecimalText(text) ==
    LET d0 == Strip(text)
        d1 == IF OccursBefore(d0, ".", ",") THEN Remove(d0, ".") ELSE d0
        d2 == IF OccursBefore(d1, ",", ".") THEN Remove(d1, ",") ELSE d1
        d3 == IF ~Contains(d2, ".") /\ Contains(d2, ",")
              THEN Replace(d2, ",", ".") ELSE d2
        d4 == Remove(d3, " ")
    IN Remove(d4, "+")

\* decimal.Decimal(str) accepts: an optional sign, then digits with at most
\* one ".", at least one digit (over the characters of the model; the
\* exponent, Infinity and NaN forms need letters the inputs do not hold).
DecimalAccepts(str) ==
    LET s0   == Strip(str)
        body == IF s0 # <<>> /\ Head(s0) \in {"+", "-"} THEN Tail(s0) ELSE s0
    IN /\ \A i \in 1..Len(body) : IsDigit(body[i]) \/ body[i] = "."
       /\ \E i \in 1..Len(body) : IsDigit(body[i])
       /\ Cardinality({i \in 1..Len(body) : body[i] = "."}) <= 1

RECURSIVE DigitsValue(_)
DigitsValue(ds) ==
    IF ds = <<>> THEN 0
    ELSE 10 * DigitsValue(SubSeq(ds, 1, Len(ds) - 1)) + DigitValue(ds[Len(ds)])

\* A Decimal up to numerical equality: no trailing zero after the point, no
\* negative zero.
RECURSIVE Normalize(_)
Normalize(v) ==
    IF v.coeff = 0 THEN DecimalZero
    ELSE IF v.exp > 0 /\ v.coeff % 10 = 0
    THEN Normalize([neg |-> v.neg, coeff |-> v.coeff \div 10, exp |-> v.exp - 1])
    ELSE v

\* decimal.Decimal(str) for a str it accepts: sign, coefficient, and the
\* number of digits after the point.
DecimalOf(str) ==
    LET s0   == Strip(str)
        neg  == s0 # <<>> /\ Head(s0) = "-"
        body == IF s0 # <<>> /\ Head(s0) \in {"+", "-"} THEN Tail(s0) ELSE s0
        dot  == IF Contains(body, ".")
                THEN CHOOSE i \in 1..Len(body) : body[i] = "." ELSE Len(body) + 1
    IN Normalize([ neg   |-> neg,
                   coeff |-> DigitsValue(Remove(body, ".")),
                   exp   |-> IF dot > Len(body) THEN 0 ELSE Len(body) - dot ])

\* to_decimal: the Decimal, or decimal.InvalidOperation
to_decimal(text) ==
    LET d == DecimalText(text)
    IN IF DecimalAccepts(d)
       THEN [raised |-> "", value |-> DecimalOf(d)]
       ELSE [raised |-> "InvalidOperation", value |-> DecimalZero]

(***************************************************************************)
(* SpecDec: to_decimal applied to one text.                                *)
(***************************************************************************)
DecAlphabet == {"1", "0", ".", ",", " ", "+", "-"}

RECURSIVE TextsOfLen(_)
TextsOfLen(n) ==
    IF n = 0 THEN {<<>>}
    ELSE {<<c>> \o t : c \in DecAlphabet, t \in TextsOfLen(n - 1)}

\* The texts of the normalizer's documentation, and the null placeholders.
DecExamples ==
    { <<"1", ",", "0", "2", "5", ".", "5", "3">>,
      <<"1", ".", "0", "2", "5", ",", "5", "3">>,
      <<"1", "0", "0", "0", "0", ",", "5", "0">>,
      <<"1", " ", "0", "2", "5", ",", "5", "3">>,
      <<"+", "1", "0", "5", "8", ",", "5", "3">>,
      <<"n", "u", "l", "l">>,
      <<"-", "n", "u", "l", "l">>,
      <<"-", "4", ".", "5", "0">>,
      <<"1", "0", "+", "5">> }

DecInputs == UNION {TextsOfLen(n) : n \in 0..MaxDecLen} \cup DecExamples

InitDec ==
    /\ ClientInit
    /\ ofx_version = "220"
    /\ CleanIdle
    /\ dec_in \in DecInputs
    /\ dec_pc = "call"
    /\ dec_out = DecimalZero
    /\ ParseIdle
    /\ CallIdle

ToDecimal ==
    /\ dec_pc = "call"
    /\ LET r == to_decimal(dec_in)
       IN /\ dec_pc' = IF r.raised = "" THEN "returned" ELSE r.raised
          /\ dec_out' = r.value
    /\ UNCHANGED dec_in
    /\ UNCHANGED <<clientVars, postVars, cleanVars, parseVars, callVars>>

RECURSIVE StripLeadingZeros(_)
StripLeadingZeros(ds) ==
    IF Len(ds) > 1 /\ Head(ds) = "0" THEN StripLeadingZeros(Tail(ds)) ELSE ds

\* str(decimal.Decimal(d)) for a d that Decimal accepts, the canonical text
\* of the value: a "-" when negative, the integer digits without leading
\* zeros (at least one digit), and the digits after the point as written.
\* (Plain notation: a text of the model has fewer than seven of them.)
DecimalStr(d) ==
    LET s0   == Strip(d)
        neg  == s0 # <<>> /\ Head(s0) = "-"
        body == IF s0 # <<>> /\ Head(s0) \in {"+", "-"} THEN Tail(s0) ELSE s0
        dot  == IF Contains(body, ".")
                THEN CHOOSE i \in 1..Len(body) : body[i] = "." ELSE Len(body) + 1
        int  == SubSeq(body, 1, dot - 1)
        frac == SubSeq(body, dot + 1, Len(body))
    IN (IF neg THEN <<"-">> ELSE <<>>)
         \o (IF int = <<>> THEN <<"0">> ELSE StripLeadingZeros(int))
         \o (IF frac = <<>> THEN <<>> ELSE <<".">> \o frac)

\* to_decimal applied to the canonical text of the Decimal just returned.
Renormalize ==
    /\ dec_pc = "returned"
    /\ fn = ""
    /\ fn' = "to_decimal"
    /\ arg' = DecimalStr(DecimalText(dec_in))
    /\ ret' = to_decimal(arg')
    /\ UNCHANGED <<clientVars, postVars, cleanVars, decVars, parseVars>>

NextDec == ToDecimal \/ Renormalize

SpecDec == InitDec /\ [][NextDec]_vars

(***************************************************************************)
(* Claims about to_decimal (SpecDec).                                      *)
(***************************************************************************)
\* The cleaning rules of the decimal normalizer as documented: rule 2 only
\* when rule 1 did not apply, and only a leading "+" removed.
DocumentedText(text) ==
    LET d1 == IF OccursBefore(text, ".", ",") THEN Remove(text, ".")
              ELSE IF OccursBefore(text, ",", ".") THEN Remove(text, ",")
              ELSE text
        d2 == IF ~Contains(d1, ".") /\ Contains(d1, ",")
              THEN Replace(d1, ",", ".") ELSE d1
        d3 == Remove(d2, " ")
    IN IF d3 # <<>> /\ Head(d3) = "+" THEN Tail(d3) ELSE d3

DocumentedDecimal(text) ==
    LET d == DocumentedText(text)
    IN IF DecimalAccepts(d)
       THEN [raised |-> "", value |-> DecimalOf(d)]
       ELSE [raised |-> "InvalidOperation", value |-> DecimalZero]

\* C10: for every text, to_decimal gives what the documented cleaning rules
\* give; "1,025.53", "1.025,53", "10000,50", "1 025,53", "+1058,53" give
\* 1025.53, 1025.53, 10000.50, 1025.53, 1058.53.
C10_FollowsDocumentedRules ==
    dec_pc # "call" =>
        /\ dec_pc = (IF DocumentedDecimal(dec_in).raised = "" THEN "returned"
                     ELSE DocumentedDecimal(dec_in).raised)
        /\ dec_out = DocumentedDecimal(dec_in).value
        /\ dec_in \in {<<"1", ",", "0", "2", "5", ".", "5", "3">>, <<"1", ".", "0", "2", "5", ",", "5", "3">>, <<"1", " ", "0", "2", "5", ",", "5", "3">>} =>
               dec_pc = "returned" /\ dec_out = [neg |-> FALSE, coeff |-> 102553, exp |-> 2]
        /\ dec_in = <<"1", "0", "0", "0", "0", ",", "5", "0">> =>
               dec_pc = "returned" /\ dec_out = [neg |-> FALSE, coeff |-> 100005, exp |-> 1]
        /\ dec_in = <<"+", "1", "0", "5", "8", ",", "5", "3">> =>
               dec_pc = "returned" /\ dec_out = [neg |-> FALSE, coeff |-> 105853, exp |-> 2]

\* C12: decimal normalization is idempotent: for every text that to_decimal
\* accepts, to_decimal of the canonical text of the value it returned returns
\* the same value.
C12_Idempotent ==
    fn = "to_decimal" => ret = [raised |-> "", value |-> dec_out]

\* The round trip was made for a text that the cleaning rules rewrite.
C12_Witness ==
    /\ fn = "to_decimal"
    /\ dec_in = <<"1", ".", "0", "2", "5", ",", "5", "3">>
    /\ arg = <<"1", "0", "2", "5", ".", "5", "3">>
    /\ ret.value = [neg |-> FALSE, coeff |-> 102553, exp |-> 2]

\* The cleaning of to_decimal with its two thousands-separator rules read
\* as if / else-if: the rule for "," before "." is tested only when the rule
\* for "." before "," did not apply.
ElseIfText(text) ==
    LET d0 == Strip(text)
        d2 == IF OccursBefore(d0, ".", ",") THEN Remove(d0, ".")
              ELSE IF OccursBefore(d0, ",", ".") THEN Remove(d0, ",")
              ELSE d0
        d3 == IF ~Contains(d2, ".") /\ Contains(d2, ",")
              THEN Replace(d2, ",", ".") ELSE d2
        d4 == Remove(d3, " ")
    IN Remove(d4, "+")

\* C28: the two thousands-separator rules of to_decimal, tested one after
\* the other, give for every text the cleaned text (and so the outcome) of
\* the exclusive if / else-if reading.
C28_IndependentIfsAsElseIf ==
    dec_pc # "call" =>
        /\ DecimalText(dec_in) = ElseIfText(dec_in)
        /\ dec_pc = (IF DecimalAccepts(ElseIfText(dec_in)) THEN "returned"
                     ELSE "InvalidOperation")
        /\ dec_pc = "returned" => dec_out = DecimalOf(ElseIfText(dec_in))

\* to_decimal has returned for a text on which the first rule strips the
\* "." and the second rule, tested after it, finds none left.
C28_Witness ==
    /\ dec_pc = "returned"
    /\ dec_in = <<"1", ".", "0", "2", "5", ",", "5", "3">>
    /\ OccursBefore(Strip(dec_in), ".", ",")
    /\ ~OccursBefore(Remove(Strip(dec_in), "."), ",", ".")
    /\ DecimalText(dec_in) = <<"1", "0", "2", "5", ".", "5", "3">>
    /\ dec_out = [neg |-> FALSE, coeff |-> 102553, exp |-> 2]

(***************************************************************************)
(* The record extractor.  ofxclient/parse.py is the iteration with the     *)
(* fail_fast switch; it does not compile as it stands (line 327) and names *)
(* some of its bindings by other names than it binds them (parse_transaction*)
(* takes node and reads tree, line 1026 raises ValuError): a misspelt name *)
(* is read as the name it misspells.  yofx/parse.py is the iteration that  *)
(* runs.  A node is the function from the names of its child tags to their *)
(* texts; the empty text is a tag with no contents.  None is <<>> and a    *)
(* value v that may be None is <<v>>.                                      *)
(***************************************************************************)
None == <<>>
Some(v) == <<v>>

LowerOf == [c \in {UpperLetters[i] : i \in 1..Len(UpperLetters)} |->
               LowerLetters[CHOOSE i \in 1..Len(UpperLetters) : UpperLetters[i] = c]]

\* str.lower()
Lower(str) == [i \in 1..Len(str) |-> IF str[i] \in DOMAIN LowerOf THEN LowerOf[str[i]] ELSE str[i]]

\* str[:n]
Prefix(str, n) == SubSeq(str, 1, IF Len(str) < n THEN Len(str) ELSE n)

IsLeapYear(y) == (y % 4 = 0 /\ y % 100 # 0) \/ y % 400 = 0

DaysInMonth(y, m) ==
    IF m = 2 THEN (IF IsLeapYear(y) THEN 29 ELSE 28)
    ELSE IF m \in {4, 6, 9, 11} THEN 30 ELSE 31

\* datetime.datetime.strptime(text, "%Y%m%d%H%M%S") (with_time) and
\* strptime(text, "%Y%m%d"): the datetime, or ValueError.  Exact for the
\* texts of the model: digits only, of the full width (14 or 8) or too short
\* for any match (under 9 or 6 characters), or holding a letter.
Strptime(text, with_time) ==
    LET width == IF with_time THEN 14 ELSE 8
        full  == Len(text) = width /\ \A i \in 1..Len(text) : IsDigit(text[i])
        year   == DigitsValue(SubSeq(text, 1, 4))
        month  == DigitsValue(SubSeq(text, 5, 6))
        day    == DigitsValue(SubSeq(text, 7, 8))
        hour   == IF with_time THEN DigitsValue(SubSeq(text, 9, 10)) ELSE 0
        minute == IF with_time THEN DigitsValue(SubSeq(text, 11, 12)) ELSE 0
        second == IF with_time THEN DigitsValue(SubSeq(text, 13, 14)) ELSE 0
    IN IF /\ full
          /\ year >= 1
          /\ month \in 1..12
          /\ day \in 1..DaysInMonth(year, month)
          /\ hour <= 23 /\ minute <= 59 /\ second <= 59
       THEN [raised |-> "",
             value |-> Some([year |-> year, month |-> month, day |-> day,
                             hour |-> hour, minute |-> minute, second |-> second])]
       ELSE [raised |-> "ValueError", value |-> None]

\* ---- datetime arithmetic (datetime - timedelta, datetime + timedelta)
DaysBeforeYear(y) ==
    (y - 1) * 365 + (y - 1) \div 4 - (y - 1) \div 100 + (y - 1) \div 400

RECURSIVE DaysBeforeMonth(_, _)
DaysBeforeMonth(y, m) ==
    IF m = 1 THEN 0 ELSE DaysBeforeMonth(y, m - 1) + DaysInMonth(y, m - 1)

\* date.toordinal(): 0001-01-01 is day 1
ToOrdinal(y, m, d) == DaysBeforeYear(y) + DaysBeforeMonth(y, m) + d

\* datetime.max is 9999-12-31
MaxOrdinal == ToOrdinal(9999, 12, 31)

\* date.fromordinal(n) for n in 1..MaxOrdinal
FromOrdinal(n) ==
    LET y == CHOOSE yy \in (n \div 366 + 1)..(n \div 365 + 1) :
                 DaysBeforeYear(yy) < n /\ n <= DaysBeforeYear(yy + 1)
        m == CHOOSE mm \in 1..12 :
                 /\ DaysBeforeMonth(y, mm) < n - DaysBeforeYear(y)
                 /\ n - DaysBeforeYear(y) <= DaysBeforeMonth(y, mm) + DaysInMonth(y, mm)
    IN [year |-> y, month |-> m, day |-> n - DaysBeforeYear(y) - DaysBeforeMonth(y, m)]

\* local_date - tz_offset + msec, for an offset of whole seconds and a
\* fraction below one second: the datetime, or OverflowError outside
\* 0001-01-01..9999-12-31.
ShiftDate(dt, tz_seconds, microseconds) ==
    LET second_of_day == dt.hour * 3600 + dt.minute * 60 + dt.second - tz_seconds
        days == ToOrdinal(dt.year, dt.month, dt.day) + second_of_day \div 86400
        rest == second_of_day % 86400
        date == FromOrdinal(days)
    IN IF days < 1 \/ days > MaxOrdinal
       THEN [raised |-> "OverflowError", value |-> None]
       ELSE [raised |-> "",
             value |-> Some([year |-> date.year, month |-> date.month, day |-> date.day,
                             hour |-> rest \div 3600, minute |-> (rest % 3600) \div 60,
                             second |-> rest % 60, microsecond |-> microseconds])]

\* The end of the longest run of digits that starts at i.
RECURSIVE DigitRunEnd(_, _)
DigitRunEnd(str, i) ==
    IF i <= Len(str) /\ IsDigit(str[i]) THEN DigitRunEnd(str, i + 1) ELSE i

\* \w of the timezone pattern
WordChars == NameChars \ {"."}

RECURSIVE WordRunEnd(_, _)
WordRunEnd(str, i) ==
    IF i <= Len(str) /\ str[i] \in WordChars THEN WordRunEnd(str, i + 1) ELSE i

\* A match of \[(?P<tz>[-+]?\d+\.?\d*)\:\w*\]$ that starts at position i:
\* the positions of the parts of its tz group, or found = FALSE.
TzMatchAt(str, i) ==
    LET n      == Len(str)
        signed == i + 1 <= n /\ str[i + 1] \in {"-", "+"}
        int_at == IF signed THEN i + 2 ELSE i + 1
        int_end == DigitRunEnd(str, int_at)
        dotted == int_end <= n /\ str[int_end] = "."
        frac_at == IF dotted THEN int_end + 1 ELSE int_end
        frac_end == DigitRunEnd(str, frac_at)
        name_end == WordRunEnd(str, frac_end + 1)
    IN [ found |-> /\ i <= n /\ str[i] = "["
                   /\ int_end > int_at
                   /\ frac_end <= n /\ str[frac_end] = ":"
                   /\ name_end = n /\ str[n] = "]",
         negative |-> signed /\ str[i + 1] = "-",
         whole |-> SubSeq(str, int_at, int_end - 1),
         fraction |-> SubSeq(str, frac_at, frac_end - 1) ]

RECURSIVE Pow10(_)
Pow10(k) == IF k = 0 THEN 1 ELSE 10 * Pow10(k - 1)

\* lines 418-424: timedelta(hours=tz) in seconds, 0 when the pattern is not
\* found.  (Offsets of the model have at most two digits after the point, so
\* that the offset is a whole number of seconds.)
TzSeconds(date_str) ==
    LET starts == {i \in 1..Len(date_str) : TzMatchAt(date_str, i).found}
        first  == CHOOSE i \in starts : \A j \in starts : i <= j
        tz     == TzMatchAt(date_str, first)
        size   == DigitsValue(tz.whole) * 3600
                    + (DigitsValue(tz.fraction) * 3600) \div Pow10(Len(tz.fraction))
    IN IF starts = {} THEN 0
       ELSE IF tz.negative THEN 0 - size ELSE size

\* lines 426-430: ^[0-9]*\.([0-9]{0,5}) as microseconds, 0 when the pattern
\* is not found
Microseconds(date_str) ==
    LET dot  == DigitRunEnd(date_str, 1)
        last == DigitRunEnd(date_str, dot + 1) - 1
        stop == IF last > dot + 5 THEN dot + 5 ELSE last
        group == SubSeq(date_str, dot + 1, stop)
    IN IF dot <= Len(date_str) /\ date_str[dot] = "."
       THEN DigitsValue(group) * Pow10(6 - Len(group))
       ELSE 0

\* parse_ofx_date (ofxclient/parse.py:410-444) and from_ofx_date
\* (ofxclient/helpers.py:12-46), called without a format: the two differ in
\* what they do with the 00000000 sentinel, which the first returns as None
\* and the second re-raises.
OfxDate(date_str, sentinel_raises) ==
    LET tz_offset  == TzSeconds(date_str)
        msec       == Microseconds(date_str)
        local_date == Strptime(Prefix(date_str, 14), TRUE)
        bare_date  == Strptime(Prefix(date_str, 8), FALSE)
    IN IF local_date.raised = "" THEN ShiftDate(local_date.value[1], tz_offset, msec)
       ELSE IF Prefix(date_str, 8) = <<"0", "0", "0", "0", "0", "0", "0", "0">>
       THEN (IF sentinel_raises THEN [raised |-> "ValueError", value |-> None]
             ELSE [raised |-> "", value |-> None])
       ELSE IF bare_date.raised = "" THEN ShiftDate(bare_date.value[1], tz_offset, msec)
       ELSE bare_date

parse_ofx_date(date_str) == OfxDate(date_str, FALSE)
from_ofx_date(date_str) == OfxDate(date_str, TRUE)

\* Transaction(), ofxclient/parse.py:256-267 (yofx takes its defaults from a
\* module that is not among the sources; they are taken to be these).
DefaultTransaction ==
    [ payee |-> <<>>, type |-> <<>>, date |-> None, user_date |-> None,
      amount |-> None, id |-> <<>>, memo |-> <<>>, sic |-> None,
      mcc |-> <<>>, checknum |-> <<>> ]

\* node.find(tag) found a tag
HasChild(node, tag) == tag \in DOMAIN node

\* The outcome of extracting from one node: the record so far, or the
\* exception raised.
Extracting(txn) == [raised |-> "", error |-> "", txn |-> txn]
Raise(class, message) == [raised |-> class, error |-> message, txn |-> DefaultTransaction]

Set(st, field, v) == Extracting([st.txn EXCEPT ![field] = v])

(* ---- ofxclient/parse.py:919-1047, field by field ---- *)
\* lines 925-932
TxType(st, node) ==
    IF st.raised # "" \/ ~HasChild(node, "TRNTYPE") THEN st
    ELSE IF node["TRNTYPE"] = <<>> THEN Raise("ValueError", "Empty transaction type")
    ELSE Set(st, "type", Strip(Lower(node["TRNTYPE"])))

\* lines 934-941
TxName(st, node) ==
    IF st.raised # "" \/ ~HasChild(node, "NAME") THEN st
    ELSE IF node["NAME"] = <<>> THEN Raise("ValueError", "Empty transaction name")
    ELSE Set(st, "payee", Strip(node["NAME"]))

\* lines 943-951
TxMemo(st, node) ==
    IF st.raised # "" \/ ~HasChild(node, "MEMO") \/ node["MEMO"] = <<>> THEN st
    ELSE Set(st, "memo", Strip(node["MEMO"]))

\* lines 955-968, d being what to_decimal did with the text
SetAmount(st, text, d) ==
    IF d.raised = "" THEN Set(st, "amount", Some(d.value))
    ELSE IF Strip(text) \in {<<"n", "u", "l", "l">>, <<"-", "n", "u", "l", "l">>}
    THEN Set(st, "amount", Some(DecimalZero))
    ELSE Raise("ValueError", "Invalid Transaction Amount")

\* lines 953-972
TxAmount(st, node) ==
    IF st.raised # "" THEN st
    ELSE IF ~HasChild(node, "TRNAMT")
    THEN Raise("ValueError", "Missing Transaction Amount (a required field)")
    ELSE IF node["TRNAMT"] = <<>> THEN Raise("ValueError", "Invalid Transaction Date")
    ELSE SetAmount(st, node["TRNAMT"], to_decimal(node["TRNAMT"]))

\* lines 979-989 and 996-1002, d being what parse_ofx_date did
SetDate(st, field, d) ==
    IF d.raised = "" THEN Set(st, field, d.value)
    ELSE Raise("ValueError", "strptime")

\* lines 974-989
TxDate(st, node) ==
    IF st.raised # "" THEN st
    ELSE IF ~HasChild(node, "DTPOSTED")
    THEN Raise("ValueError", "Missing Transaction Date (a required field)")
    ELSE IF node["DTPOSTED"] = <<>> THEN Raise("ValueError", "Invalid Transaction Date")
    ELSE SetDate(st, "date", parse_ofx_date(Strip(node["DTPOSTED"])))

\* lines 991-1002
TxUserDate(st, node) ==
    IF st.raised # "" \/ ~HasChild(node, "DTUSER") THEN st
    ELSE IF node["DTUSER"] = <<>> THEN Raise("ValueError", "Invalid Transaction User Date")
    ELSE SetDate(st, "user_date", parse_ofx_date(Strip(node["DTUSER"])))

\* lines 1004-1016
TxId(st, node) ==
    IF st.raised # "" THEN st
    ELSE IF ~HasChild(node, "FITID")
    THEN Raise("ValueError", "Missing FIT id (a required field)")
    ELSE IF node["FITID"] = <<>> THEN Raise("ValueError", "Empty FIT id (a required field)")
    ELSE Set(st, "id", Strip(node["FITID"]))

\* lines 1018-1026.  (The SIC texts of the model are no keys of mcc.codes, a
\* table that is not among the sources, so lines 1028-1037 change nothing.)
TxSic(st, node) ==
    IF st.raised # "" THEN st
    ELSE IF ~HasChild(node, "SIC") THEN Raise("ValueError", "Missing SIC tag")
    ELSE IF node["SIC"] = <<>>
    THEN Raise("ValueError", "Empty transaction Standard Industry Code (SIC)")
    ELSE Set(st, "sic", Some(Strip(node["SIC"])))

\* lines 1039-1045
TxChecknum(st, node) ==
    IF st.raised # "" \/ ~HasChild(node, "CHECKNUM") THEN st
    ELSE IF node["CHECKNUM"] = <<>>
    THEN Raise("ValueError", "Empty Check (or other reference) number")
    ELSE Set(st, "checknum", Strip(node["CHECKNUM"]))

\* parse_transaction, ofxclient/parse.py:919-1047
parse_transaction(node) ==
    TxChecknum(TxSic(TxId(TxUserDate(TxDate(TxAmount(TxMemo(TxName(TxType(
        Extracting(DefaultTransaction), node), node), node), node), node), node),
        node), node), node)

(* ---- yofx/parse.py:281-311 ---- *)
\* extract_contents, yofx/parse.py:30-34: None when the child is missing or
\* has no text.
extract_contents(node, name) ==
    IF ~HasChild(node, name) \/ node[name] = <<>> THEN None
    ELSE Some(Strip(node[name]))

\* A field of yofx's parse_transaction set to what to_decimal (decimal) or
\* from_ofx_date gave for its text; nothing there catches what they raise.
YofxSet(st, field, d, decimal) ==
    IF d.raised # "" THEN Raise(d.raised, IF decimal THEN "to_decimal" ELSE "from_ofx_date")
    ELSE Set(st, field, IF decimal THEN Some(d.value) ELSE d.value)

\* lines 291-297 and 307-309: a field left alone when extract_contents gave
\* None for it, text being what it gave
YofxText(st, text, field) ==
    IF st.raised # "" \/ text = None THEN st ELSE Set(st, field, text[1])

\* lines 287-289
YofxLower(st, text, field) ==
    IF st.raised # "" \/ text = None THEN st ELSE Set(st, field, Lower(text[1]))

\* lines 299-301
YofxDecimal(st, text, field) ==
    IF st.raised # "" \/ text = None THEN st
    ELSE YofxSet(st, field, to_decimal(text[1]), TRUE)

\* lines 303-305
YofxDate(st, text, field) ==
    IF st.raised # "" \/ text = None THEN st
    ELSE YofxSet(st, field, from_ofx_date(text[1]), FALSE)

\* parse_transaction, yofx/parse.py:281-311.  The id is read from a child
\* named ID.
yofx_parse_transaction(node) ==
    YofxText(YofxDate(YofxDecimal(YofxText(YofxText(YofxLower(
        Extracting(DefaultTransaction),
        extract_contents(node, "TRNTYPE"), "type"),
        extract_contents(node, "NAME"), "payee"),
        extract_contents(node, "MEMO"), "memo"),
        extract_contents(node, "TRNAMT"), "amount"),
        extract_contents(node, "DTPOSTED"), "date"),
        extract_contents(node, "ID"), "id")

(* ---- the statement and the document ---- *)
\* statement.transactions.append(transaction) that puts the transaction in
\* front of the earlier ones.
AppendTransaction_Prepend(transactions, txn) == <<txn>> \o transactions

\* statement.transactions.append(...), lines 905-906
AppendTransaction(transactions, txn) == Append(transactions, txn)

RECURSIVE StatementLoop(_, _, _, _)

\* Lines 904-914 for node i, t being what parse_transaction did with it:
\* the transaction is appended, or the ValueError is recorded and, under
\* fail_fast, re-raised.
StatementStep(statement, nodes, i, fail_fast, t) ==
    IF t.raised = ""
    THEN StatementLoop(
             [statement EXCEPT !.transactions = AppendTransaction(@, t.txn)],
             nodes, i + 1, fail_fast)
    ELSE IF t.raised # "ValueError"
    THEN [raised |-> t.raised, statement |-> statement]
    ELSE IF fail_fast
    THEN [raised |-> "ValueError",
          statement |-> [statement EXCEPT !.discarded_entries =
                            Append(@, [error |-> t.error, content |-> nodes[i]])]]
    ELSE StatementLoop(
             [statement EXCEPT !.discarded_entries =
                 Append(@, [error |-> t.error, content |-> nodes[i]])],
             nodes, i + 1, fail_fast)

\* The loop of parse_statement, ofxclient/parse.py:903-914, from node i on:
\* the statement, or the ValueError re-raised under fail_fast.
StatementLoop(statement, nodes, i, fail_fast) ==
    IF i > Len(nodes) THEN [raised |-> "", statement |-> statement]
    ELSE StatementStep(statement, nodes, i, fail_fast, parse_transaction(nodes[i]))

\* parse_statement(node, fail_fast), ofxclient/parse.py:838-916, for a
\* statement node whose only children are STMTTRN nodes.
parse_statement(nodes, fail_fast) == StatementLoop(EmptyStatement, nodes, 1, fail_fast)

\* parse_accounts, ofxclient/parse.py:761-794, for one statement: it calls
\* parse_statement(statement), so fail_fast takes its default, True.
parse_accounts(nodes) == parse_statement(nodes, TRUE)

RECURSIVE YofxLoop(_, _, _)

\* Lines 339-340 for node i, t being what parse_transaction did with it.
YofxStep(transactions, nodes, i, t) ==
    IF t.raised = "" THEN YofxLoop(Append(transactions, t.txn), nodes, i + 1)
    ELSE [raised |-> t.raised, statement |-> EmptyStatement]

\* The loop of yofx's parse_ofx, yofx/parse.py:338-340: nothing is caught.
YofxLoop(transactions, nodes, i) ==
    IF i > Len(nodes) THEN [raised |-> "", statement |->
                               [transactions |-> transactions, discarded_entries |-> <<>>]]
    ELSE YofxStep(transactions, nodes, i, yofx_parse_transaction(nodes[i]))

(***************************************************************************)
(* SpecParse: parse_ofx applied to a document with one bank statement.     *)
(***************************************************************************)
\* TRNTYPE=DEBIT, NAME=Coffee Shop, TRNAMT=-4.50, DTPOSTED=20230101120000,
\* FITID=1001
CoffeeNode ==
    ("TRNTYPE" :> <<"D", "E", "B", "I", "T">>) @@ ("NAME" :> <<"C", "o", "f", "f", "e", "e", " ", "S", "h", "o", "p">>) @@ ("TRNAMT" :> <<"-", "4", ".", "5", "0">>)
        @@ ("DTPOSTED" :> <<"2", "0", "2", "3", "0", "1", "0", "1", "1", "2", "0", "0", "0", "0">>) @@ ("FITID" :> <<"1", "0", "0", "1">>)

\* The same with a SIC code.
GoodNode == ("SIC" :> <<"5", "8", "1", "4">>) @@ CoffeeNode

Without(node, tag) == [t \in DOMAIN node \ {tag} |-> node[t]]
With(node, tag, text) == (tag :> text) @@ node

\* The STMTTRN nodes of the model: the two above, and GoodNode with one
\* child removed, emptied or given another text.
TxnNodes ==
    {CoffeeNode, GoodNode}
    \cup {Without(GoodNode, tag) : tag \in {"TRNAMT", "DTPOSTED", "FITID"}}
    \cup {With(GoodNode, tag, <<>>) : tag \in {"TRNAMT", "DTPOSTED", "FITID", "MEMO"}}
    \cup {With(GoodNode, "TRNAMT", text) : text \in {<<"n", "u", "l", "l">>, <<"1", ",", "0", ",", "0">>}}
    \cup {With(GoodNode, "DTPOSTED", text) : text \in {<<"0", "0", "0", "0", "0", "0", "0", "0">>, <<"2", "0", "2", "3">>}}
    \cup {With(GoodNode, "DTUSER", text) : text \in {<<"2", "0", "2", "3", "0", "1", "0", "1", "1", "2", "0", "0", "0", "0">>, <<"2", "0", "2", "3">>}}

RECURSIVE NodeSeqs(_)
NodeSeqs(n) ==
    IF n = 0 THEN {<<>>}
    ELSE {<<node>> \o rest : node \in TxnNodes, rest \in NodeSeqs(n - 1)}

\* Longer statements: three nodes that differ, with and without one that
\* fails between them.
OrderFixtures ==
    { <<GoodNode, With(GoodNode, "TRNAMT", <<"n", "u", "l", "l">>), With(GoodNode, "DTUSER", <<"2", "0", "2", "3", "0", "1", "0", "1", "1", "2", "0", "0", "0", "0">>)>>,
      <<With(GoodNode, "DTUSER", <<"2", "0", "2", "3", "0", "1", "0", "1", "1", "2", "0", "0", "0", "0">>), Without(GoodNode, "TRNAMT"), GoodNode>>,
      <<CoffeeNode, With(CoffeeNode, "MEMO", <<"x">>), With(CoffeeNode, "TRNAMT", <<"1", "0", "0", ".", "0", "0">>)>> }

InitParse ==
    /\ ClientInit
    /\ ofx_version = "220"
    /\ CleanIdle
    /\ DecIdle
    /\ CallIdle
    /\ p_doc \in UNION {NodeSeqs(n) : n \in 0..MaxTxns} \cup OrderFixtures
    /\ p_fail_fast \in BOOLEAN
    /\ p_impl = ""
    /\ p_pc = "call"
    /\ p_result = EmptyStatement
    /\ p_error = ""

Finish(impl, r) ==
    /\ p_impl' = impl
    /\ p_pc' = IF r.raised = "" THEN "returned" ELSE "raised"
    /\ p_error' = r.raised
    /\ p_result' = IF r.raised = "" THEN r.statement ELSE EmptyStatement
    /\ UNCHANGED <<p_doc, p_fail_fast>>
    /\ UNCHANGED <<clientVars, postVars, cleanVars, decVars, callVars>>

\* parse_ofx(file_path, fail_fast), ofxclient/parse.py:307-407: the
\* statements go to parse_accounts, which is not given fail_fast.
parse_ofx ==
    /\ p_pc = "call"
    /\ Finish("ofxclient", parse_accounts(p_doc))

\* parse_ofx(ofx_str), yofx/parse.py:314-342: it has no fail_fast.
yofx_parse_ofx ==
    /\ p_pc = "call"
    /\ p_fail_fast = TRUE
    /\ Finish("yofx", YofxLoop(<<>>, p_doc, 1))

\* parse_statement(node, fail_fast), ofxclient/parse.py:838-916, called on
\* the statement node itself.
ParseStatement ==
    /\ p_pc = "call"
    /\ Finish("ofxclient.parse_statement", parse_statement(p_doc, p_fail_fast))

\* parse_statement(node), yofx/parse.py:245-278: the loop of lines 275-276
\* is that of parse_ofx.
YofxParseStatement ==
    /\ p_pc = "call"
    /\ p_fail_fast = TRUE
    /\ Finish("yofx.parse_statement", YofxLoop(<<>>, p_doc, 1))

NextParse == parse_ofx \/ yofx_parse_ofx \/ ParseStatement \/ YofxParseStatement

SpecParse == InitParse /\ [][NextParse]_vars

(***************************************************************************)
(* Claims about the record extractor (SpecParse).                          *)
(***************************************************************************)
HasRequired(node) ==
    HasChild(node, "TRNAMT") /\ HasChild(node, "DTPOSTED") /\ HasChild(node, "FITID")

\* C5: a STMTTRN node that lacks TRNAMT, DTPOSTED or FITID yields no
\* Transaction, and no Transaction of a parse output has a defaulted (empty
\* or null) amount, date or id.
C5_RequiredFieldsNeverDefaulted ==
    p_pc = "returned" =>
        /\ Len(p_result.transactions)
               <= Cardinality({i \in 1..Len(p_doc) : HasRequired(p_doc[i])})
        /\ \A i \in 1..Len(p_result.transactions) :
               /\ p_result.transactions[i].amount # None
               /\ p_result.transactions[i].date # None
               /\ p_result.transactions[i].id # <<>>

\* The nodes of the document that parse_transaction rejects.
Failing(nodes) == {i \in 1..Len(nodes) : parse_transaction(nodes[i]).raised # ""}

\* C6: parse_ofx called with fail_fast false completes, with every failing
\* node and its error message in discarded_entries and every other node
\* extracted; called with fail_fast true it aborts at the first failing node.
C6_BothModes ==
    (p_impl = "ofxclient" /\ p_pc # "call") =>
        /\ (p_fail_fast /\ Failing(p_doc) # {}) => p_pc = "raised"
        /\ ~p_fail_fast =>
            /\ p_pc = "returned"
            /\ Len(p_result.discarded_entries) = Cardinality(Failing(p_doc))
            /\ \A k \in 1..Len(p_result.discarded_entries) :
                   \E i \in Failing(p_doc) :
                       p_result.discarded_entries[k] =
                           [ error |-> parse_transaction(p_doc[i]).error,
                             content |-> p_doc[i] ]
            /\ Len(p_result.transactions) = Len(p_doc) - Cardinality(Failing(p_doc))

\* A STMTTRN node whose TRNTYPE, NAME, TRNAMT, DTPOSTED and FITID are there
\* and decode.
Decodable(node) ==
    /\ \A tag \in {"TRNTYPE", "NAME", "TRNAMT", "DTPOSTED", "FITID"} :
           HasChild(node, tag) /\ node[tag] # <<>>
    /\ to_decimal(node["TRNAMT"]).raised = ""
    /\ parse_ofx_date(Strip(node["DTPOSTED"])).raised = ""
    /\ parse_ofx_date(Strip(node["DTPOSTED"])).value # None

\* C24: a statement with a single STMTTRN parses to exactly one Transaction
\* whose type is the lower-cased TRNTYPE, payee the NAME, amount the decimal
\* of TRNAMT, date the decoded DTPOSTED and id the FITID; TRNTYPE=DEBIT,
\* NAME=Coffee Shop, TRNAMT=-4.50, DTPOSTED=20230101120000, FITID=1001 gives
\* debit, Coffee Shop, -4.50, 2023-01-01T12:00:00 and 1001.
C24_SingleTransaction ==
    (p_pc # "call" /\ Len(p_doc) = 1 /\ Decodable(p_doc[1])) =>
        /\ p_pc = "returned"
        /\ Len(p_result.transactions) = 1
        /\ p_result.transactions[1].type = Lower(Strip(p_doc[1]["TRNTYPE"]))
        /\ p_result.transactions[1].payee = Strip(p_doc[1]["NAME"])
        /\ p_result.transactions[1].amount = Some(to_decimal(p_doc[1]["TRNAMT"]).value)
        /\ p_result.transactions[1].date = parse_ofx_date(Strip(p_doc[1]["DTPOSTED"])).value
        /\ p_result.transactions[1].id = Strip(p_doc[1]["FITID"])
        /\ p_doc[1] = CoffeeNode =>
               /\ p_result.transactions[1].type = <<"d", "e", "b", "i", "t">>
               /\ p_result.transactions[1].payee
                      = <<"C", "o", "f", "f", "e", "e", " ", "S", "h", "o", "p">>
               /\ p_result.transactions[1].amount
                      = Some([neg |-> TRUE, coeff |-> 45, exp |-> 1])
               /\ p_result.transactions[1].date
                      = Some([year |-> 2023, month |-> 1, day |-> 1, hour |-> 12,
                              minute |-> 0, second |-> 0, microsecond |-> 0])
               /\ p_result.transactions[1].id = <<"1", "0", "0", "1">>

(***************************************************************************)
(* SpecDate: the date normalizer applied to one text.                      *)
(***************************************************************************)
\* The leading digits of the texts: full timestamps, bare dates, the
\* sentinel, fields out of range, the first and the last year of datetime.
DateStems ==
    { <<"2", "0", "1", "0", "1", "1", "0", "6", "1", "6", "0", "0", "0", "0">>,
      <<"2", "0", "2", "3", "0", "1", "0", "1">>,
      <<"0", "0", "0", "0", "0", "0", "0", "0">>,
      <<"0", "0", "0", "0", "0", "0", "0", "0", "0", "0", "0", "0", "0", "0">>,
      <<"2", "0", "2", "3", "1", "3", "0", "1", "1", "2", "0", "0", "0", "0">>,
      <<"2", "0", "2", "3", "0", "1", "0", "1", "2", "5", "0", "0", "0", "0">>,
      <<"2", "0", "2", "4", "0", "2", "2", "9", "2", "3", "5", "9", "5", "9">>,
      <<"2", "0", "2", "3", "0", "2", "2", "9">>,
      <<"0", "0", "0", "1", "0", "1", "0", "1", "0", "0", "0", "0", "0", "0">>,
      <<"9", "9", "9", "9", "1", "2", "3", "1", "2", "3", "5", "9", "5", "9">>,
      <<"2", "0", "2", "3">>,
      <<>> }

DateFractions ==
    { <<>>,
      <<".", "0", "0">>,
      <<".", "5">>,
      <<".", "1", "2", "3">>,
      <<".", "1", "2", "3", "4", "5">>,
      <<".", "1", "2", "3", "4", "5", "6">> }

DateZones ==
    { <<>>,
      <<"[", "-", "5", ":", "E", "S", "T", "]">>,
      <<"[", "0", ":", "G", "M", "T", "]">>,
      <<"[", "+", "5", ".", "5", ":", "I", "S", "T", "]">>,
      <<"[", "-", "3", ".", "5", ":", "N", "S", "T", "]">>,
      <<"[", "-", "5", "]">>,
      <<"[", "5", ":", "]">>,
      <<"[", "-", "1", "2", ":", "X", "]">> }

DateTexts == {stem \o fraction \o zone :
                 stem \in DateStems, fraction \in DateFractions, zone \in DateZones}

InitDate ==
    /\ ClientInit
    /\ ofx_version = "220"
    /\ CleanIdle
    /\ DecIdle
    /\ ParseIdle
    /\ fn = ""
    /\ arg \in DateTexts
    /\ ret = <<>>

\* One call fn(arg) of a helper function that gives outcome.
Call(name, outcome) ==
    /\ fn = ""
    /\ fn' = name
    /\ ret' = outcome
    /\ UNCHANGED arg
    /\ UNCHANGED <<clientVars, postVars, cleanVars, decVars, parseVars>>

\* parse_ofx_date(date_str), ofxclient/parse.py:410-444
ParseOfxDate == Call("parse_ofx_date", parse_ofx_date(arg))

\* from_ofx_date(date_str), ofxclient/helpers.py:12-46
FromOfxDate == Call("from_ofx_date", from_ofx_date(arg))

NextDate == ParseOfxDate \/ FromOfxDate

SpecDate == InitDate /\ [][NextDate]_vars

(***************************************************************************)
(* Claims about the date normalizer (SpecDate).                            *)
(***************************************************************************)
\* The offset written in the bracket of a text, in seconds: the number
\* between "[" and the ":" or "]" that follows it; 0 without a bracket.
BracketSeconds(text) ==
    LET open    == CHOOSE i \in 1..Len(text) : text[i] = "["
        signed  == open + 1 <= Len(text) /\ text[open + 1] \in {"-", "+"}
        int_at  == IF signed THEN open + 2 ELSE open + 1
        int_end == DigitRunEnd(text, int_at)
        frac_at == IF int_end <= Len(text) /\ text[int_end] = "." THEN int_end + 1 ELSE int_end
        frac_end == DigitRunEnd(text, frac_at)
        size == DigitsValue(SubSeq(text, int_at, int_end - 1)) * 3600
                  + (DigitsValue(SubSeq(text, frac_at, frac_end - 1)) * 3600)
                        \div Pow10(frac_end - frac_at)
    IN IF ~Contains(text, "[") THEN 0
       ELSE IF signed /\ text[open + 1] = "-" THEN 0 - size ELSE size

\* The fractional seconds written in a text, in microseconds: the digits that
\* follow the "." after the leading digits; 0 without one.
FractionMicroseconds(text) ==
    LET dot  == DigitRunEnd(text, 1)
        last == DigitRunEnd(text, dot + 1) - 1
    IN IF dot <= Len(text) /\ text[dot] = "."
       THEN (DigitsValue(SubSeq(text, dot + 1, last)) * Pow10(6)) \div Pow10(last - dot)
       ELSE 0

\* What the leading 14 characters say, or else the leading 8 at midnight.
LeadingTimestamp(text) ==
    IF Strptime(Prefix(text, 14), TRUE).raised = ""
    THEN Strptime(Prefix(text, 14), TRUE)
    ELSE Strptime(Prefix(text, 8), FALSE)

DateExample == <<"2", "0", "1", "0", "1", "1", "0", "6", "1", "6", "0", "0", "0", "0", ".", "0", "0", "[", "-", "5", ":", "E", "S", "T", "]">>
BareDateExample == <<"2", "0", "2", "3", "0", "1", "0", "1">>

\* C13: the date normalizer returns the timestamp of the leading 14 (or else
\* 8) characters minus the bracketed offset in hours plus the fractional
\* seconds; 20101106160000.00[-5:EST] gives 2010-11-06T21:00:00 and 20230101
\* gives 2023-01-01T00:00:00.
C13_TimestampMinusOffsetPlusFraction ==
    (fn # "" /\ ret.raised = "" /\ ret.value # None) =>
        /\ ret = ShiftDate(LeadingTimestamp(arg).value[1],
                           BracketSeconds(arg), FractionMicroseconds(arg))
        /\ arg = DateExample =>
               ret.value[1] = [year |-> 2010, month |-> 11, day |-> 6, hour |-> 21,
                               minute |-> 0, second |-> 0, microsecond |-> 0]
        /\ arg = BareDateExample =>
               ret.value[1] = [year |-> 2023, month |-> 1, day |-> 1, hour |-> 0,
                               minute |-> 0, second |-> 0, microsecond |-> 0]

\* C14: a text whose leading 8 characters are 00000000 decodes to the "no
\* date" value; the date normalizer never raises for it.
C14_SentinelIsNoDate ==
    (fn # "" /\ Prefix(arg, 8) = <<"0", "0", "0", "0", "0", "0", "0", "0">>) => ret = [raised |-> "", value |-> None]

(***************************************************************************)
(* SpecBal: the balances of one statement node.  A child of the statement  *)
(* node is keyed by its tag name as written in the document; a balance     *)
(* element is its text (<<>> when it has none) and its children.           *)
(***************************************************************************)
\* str.lower() of the tag names of the model
LowerName ==
    [ name \in {"LEDGERBAL", "ledgerbal", "AVAILBAL", "availbal",
                "BALAMT", "balamt", "DTASOF", "dtasof"} |->
        CASE name \in {"LEDGERBAL", "ledgerbal"} -> "ledgerbal"
          [] name \in {"AVAILBAL", "availbal"} -> "availbal"
          [] name \in {"BALAMT", "balamt"} -> "balamt"
          [] name \in {"DTASOF", "dtasof"} -> "dtasof" ]

\* BeautifulSoup's find on a tree built by html.parser, which lower-cases
\* every tag name: the name as written in the document, None when no child
\* has that name.
SoupFind(node, name) ==
    LET found == {k \in DOMAIN node : LowerName[k] = name}
    IN IF found = {} THEN None ELSE Some(CHOOSE k \in found : TRUE)

Stmt(statement) == [raised |-> "", statement |-> statement]
StmtRaise(class) == [raised |-> class, statement |-> <<>>]

\* setattr(statement, attr, v)
SetAttr(statement, attr, v) ==
    [a \in DOMAIN statement \cup {attr} |-> IF a = attr THEN v ELSE statement[a]]

\* lines 809-817, amount being what to_decimal did with the BALAMT element.
\* fail_fast is bound nowhere in parse_balance: the handlers that test it
\* raise NameError.
SoupSetAmount(st, text, amount, bal_attr) ==
    IF text = <<>> \/ amount.raised # "" THEN StmtRaise("NameError")
    ELSE Stmt(SetAttr(st.statement, bal_attr, Some(amount.value)))

\* lines 818-835, date being what parse_ofx_date did with the DTASOF text
SoupSetDate(st, text, date, bal_date_attr) ==
    IF text = <<>> \/ date.raised = "ValueError" THEN StmtRaise("NameError")
    ELSE IF date.raised # "" THEN StmtRaise(date.raised)
    ELSE Stmt(SetAttr(st.statement, bal_date_attr, date.value))

\* lines 809-817 for the tag that bal_tag.find("balamt") gave
SoupAmount(st, bal, balamt_tag, bal_attr) ==
    IF st.raised # "" \/ balamt_tag = None THEN st
    ELSE SoupSetAmount(st, bal[balamt_tag[1]], to_decimal(bal[balamt_tag[1]]), bal_attr)

\* lines 818-835 for the tag that bal_tag.find("dtasof") gave
SoupDate(st, bal, dtasof_tag, bal_date_attr) ==
    IF st.raised # "" \/ dtasof_tag = None THEN st
    ELSE SoupSetDate(st, bal[dtasof_tag[1]], parse_ofx_date(Strip(bal[dtasof_tag[1]])),
                     bal_date_attr)

\* lines 806-835 for the tag that stmt_ofx.find(bal_tag_name) gave
SoupBalance(st, stmt_ofx, bal_tag, bal_attr, bal_date_attr) ==
    IF st.raised # "" \/ bal_tag = None THEN st
    ELSE SoupDate(
             SoupAmount(st, stmt_ofx[bal_tag[1]].children,
                        SoupFind(stmt_ofx[bal_tag[1]].children, "balamt"), bal_attr),
             stmt_ofx[bal_tag[1]].children,
             SoupFind(stmt_ofx[bal_tag[1]].children, "dtasof"), bal_date_attr)

\* parse_balance, ofxclient/parse.py:797-835
SoupParseBalance(st, stmt_ofx, bal_tag_name, bal_attr, bal_date_attr) ==
    SoupBalance(st, stmt_ofx, SoupFind(stmt_ofx, bal_tag_name), bal_attr, bal_date_attr)

\* lines 239-242, date being what from_ofx_date did with the DTASOF text
YofxAmountDate(amount, date) ==
    IF date.raised # "" THEN [raised |-> date.raised, value |-> None]
    ELSE [raised |-> "", value |-> Some([amount |-> Some(amount.value), date |-> date.value])]

\* lines 230-242, amount being what to_decimal did with the BALAMT text
YofxAmount(amount, date_str) ==
    IF amount.raised # "" \/ date_str = None THEN [raised |-> "ValueError", value |-> None]
    ELSE YofxAmountDate(amount, from_ofx_date(date_str[1]))

\* lines 226-242 for what extract_contents gave for BALAMT and DTASOF
YofxBalance(amount_str, date_str) ==
    IF amount_str = None THEN [raised |-> "ValueError", value |-> None]
    ELSE YofxAmount(to_decimal(amount_str[1]), date_str)

\* lines 222-242 for the element that node.find(bal_tag_name) gave.  An
\* Element with no children is false.
YofxFound(balance) ==
    IF DOMAIN balance.children = {} \/ balance.text = <<>>
    THEN [raised |-> "", value |-> None]
    ELSE YofxBalance(extract_contents(balance.children, "BALAMT"),
                     extract_contents(balance.children, "DTASOF"))

\* parse_balance, yofx/parse.py:218-242: None, the pair, or the exception.
yofx_parse_balance(node, bal_tag_name) ==
    IF bal_tag_name \notin DOMAIN node THEN [raised |-> "", value |-> None]
    ELSE YofxFound(node[bal_tag_name])

\* lines 262-272 of yofx's parse_statement for one balance, balance being
\* what parse_balance did
YofxSetBalance(st, balance, bal_attr, bal_date_attr) ==
    IF st.raised # "" THEN st
    ELSE IF balance.raised # "" THEN StmtRaise(balance.raised)
    ELSE IF balance.value = None THEN st
    ELSE Stmt(SetAttr(SetAttr(st.statement, bal_attr, balance.value[1].amount),
                      bal_date_attr, balance.value[1].date))

\* The attributes no balance has been set on.
NoBalances == [a \in {} |-> None]

\* The texts of a BALAMT and of a DTASOF child; Absent is no child.
Absent == <<"absent">>
BalAmtTexts == {<<>>, <<"1", "0", "0", ".", "0", "0">>, <<"n", "u", "l", "l">>, <<"-", "n", "u", "l", "l">>, <<"1", ",", "0", ",", "0">>}
DtAsOfTexts == {<<>>, <<"2", "0", "2", "3", "0", "1", "0", "1">>, <<"0", "0", "0", "0", "0", "0", "0", "0">>, <<"2", "0", "2", "3">>}

\* The children of a balance element, named in upper or in lower case.
BalChildren(upper, amt, asof) ==
    LET amt_name  == IF upper THEN "BALAMT" ELSE "balamt"
        asof_name == IF upper THEN "DTASOF" ELSE "dtasof"
    IN [name \in (IF amt = Absent THEN {} ELSE {amt_name})
                    \cup (IF asof = Absent THEN {} ELSE {asof_name}) |->
           IF name = amt_name THEN amt ELSE asof]

\* The text of a balance element: none, or the white space between its
\* opening tag and its first child.
BalElements ==
    { [text |-> text, children |-> BalChildren(upper, amt, asof)] :
        text \in {<<>>, <<" ">>}, upper \in BOOLEAN,
        amt \in BalAmtTexts \cup {Absent}, asof \in DtAsOfTexts \cup {Absent} }

GoodBalance == [text |-> <<" ">>, children |-> BalChildren(TRUE, <<"1", "0", "0", ".", "0", "0">>, <<"2", "0", "2", "3", "0", "1", "0", "1">>)]

\* The statement nodes of the model: a ledger balance or none, an available
\* balance (a complete one) or none.
StmtNodes ==
    { ledger @@ avail :
        ledger \in {NoBalances}
            \cup {name :> element : name \in {"LEDGERBAL", "ledgerbal"},
                                    element \in BalElements},
        avail \in {NoBalances}
            \cup {name :> GoodBalance : name \in {"AVAILBAL", "availbal"}} }

InitBal ==
    /\ ClientInit
    /\ ofx_version = "220"
    /\ CleanIdle
    /\ DecIdle
    /\ ParseIdle
    /\ fn = ""
    /\ arg \in StmtNodes
    /\ ret = <<>>

\* The balances of parse_statement, ofxclient/parse.py:896-900
SoupBalances ==
    Call("ofxclient.parse_statement",
         SoupParseBalance(
             SoupParseBalance(Stmt(NoBalances), arg, "ledgerbal", "balance", "balance_date"),
             arg, "availbal", "available_balance", "available_balance_date"))

\* The balances of parse_statement, yofx/parse.py:262-272
YofxBalances ==
    Call("yofx.parse_statement",
         YofxSetBalance(
             YofxSetBalance(Stmt(NoBalances), yofx_parse_balance(arg, "ledgerbal"),
                            "balance", "balance_date"),
             yofx_parse_balance(arg, "availbal"),
             "available_balance", "available_balance_date"))

NextBal == SoupBalances \/ YofxBalances

SpecBal == InitBal /\ [][NextBal]_vars

(***************************************************************************)
(* Claims about balances (SpecBal).                                        *)
(***************************************************************************)
\* The balance element of the statement node written under a name, in
\* either case.
HasBalance(node, name) == SoupFind(node, name) # None
BalanceOf(node, name) == node[SoupFind(node, name)[1]].children
HasSub(node, name, sub) == SoupFind(BalanceOf(node, name), sub) # None
SubText(node, name, sub) == BalanceOf(node, name)[SoupFind(BalanceOf(node, name), sub)[1]]

\* C11: the texts "null" and "-null" decode to zero wherever a decimal field
\* is decoded, here the amount of a ledger balance that has a date.
C11_NullIsZero ==
    ( /\ fn # ""
      /\ HasBalance(arg, "ledgerbal")
      /\ HasSub(arg, "ledgerbal", "balamt")
      /\ HasSub(arg, "ledgerbal", "dtasof")
      /\ SubText(arg, "ledgerbal", "balamt") \in {<<"n", "u", "l", "l">>, <<"-", "n", "u", "l", "l">>}
      /\ SubText(arg, "ledgerbal", "dtasof") = <<"2", "0", "2", "3", "0", "1", "0", "1">> ) =>
        /\ ret.raised = ""
        /\ "balance" \in DOMAIN ret.statement
        /\ ret.statement["balance"] = Some(DecimalZero)

\* C15: a LEDGERBAL or AVAILBAL that is present without its BALAMT or
\* without its DTASOF is an extraction error: it is not skipped, and never is
\* only one of the balance amount and the balance date set.
C15_BalanceNeedsBothFields ==
    fn # "" =>
        /\ ( /\ HasBalance(arg, "ledgerbal")
             /\ ~(HasSub(arg, "ledgerbal", "balamt") /\ HasSub(arg, "ledgerbal", "dtasof")) )
               => ret.raised # ""
        /\ ret.raised = "" =>
               ("balance" \in DOMAIN ret.statement
                    <=> "balance_date" \in DOMAIN ret.statement)

(***************************************************************************)
(* SpecInst: the accounts of a document and their institution.  A document *)
(* is its FI node (None without one), the number of its STMTRS, CCSTMTRS   *)
(* and INVSTMTRS nodes and, for each ACCTINFO node in document order, the  *)
(* kind of account information it holds.                                   *)
(***************************************************************************)
\* Account() and InvestmentAccount(), ofxclient/parse.py:156-173: the
\* institution is None.
NewAccount(origin) == [origin |-> origin, institution |-> None]

\* parse_org(fi), ofxclient/parse.py:723-733
parse_org(fi) == [organization |-> fi.org, fid |-> fi.fid]

\* for account in accounts: account.institution = parse_org(fi)
SetInstitution(accounts, fi) ==
    [i \in 1..Len(accounts) |-> [accounts[i] EXCEPT !.institution = Some(parse_org(fi))]]

\* The loop of parse_account_info, ofxclient/parse.py:449-469, from ACCTINFO
\* node i on.  The loop of line 462 binds the name account, which is the
\* node of this iteration, to the accounts of rv: line 465 then calls find on
\* an Account whenever rv is not empty.
RECURSIVE AccountInfoLoop(_, _, _, _)
AccountInfoLoop(rv, infos, i, fi) ==
    IF i > Len(infos) THEN [raised |-> "", accounts |-> rv]
    ELSE IF infos[i] \notin {"bankacctinfo", "ccacctinfo", "invacctinfo"}
    THEN AccountInfoLoop(rv, infos, i + 1, fi)
    ELSE IF fi # None /\ rv # <<>>
    THEN [raised |-> "AttributeError", accounts |-> SetInstitution(rv, fi[1])]
    ELSE AccountInfoLoop(rv \o <<NewAccount("acctinfo")>>, infos, i + 1, fi)

\* parse_account_info(account_info, tree), ofxclient/parse.py:447-470
parse_account_info(doc) == AccountInfoLoop(<<>>, doc.acctinfo, 1, doc.fi)

\* n accounts of one origin
Accounts(n, origin) == [i \in 1..n |-> NewAccount(origin)]

\* parse_ofx from line 378 on, ofxclient/parse.py:378-407: the accounts of
\* the result, or the exception.
ParseOfxAccounts(doc) ==
    LET stated == Accounts(doc.stmtrs, "stmtrs") \o Accounts(doc.ccstmtrs, "ccstmtrs")
                      \o Accounts(doc.invstmtrs, "invstmtrs")
        info == parse_account_info(doc)
        accounts == stated \o info.accounts
    IN IF info.raised # "" THEN [raised |-> info.raised, accounts |-> <<>>]
       ELSE IF doc.fi # None
       THEN [raised |-> "", accounts |-> SetInstitution(accounts, doc.fi[1])]
       ELSE [raised |-> "", accounts |-> accounts]

AcctInfoKinds == {"bankacctinfo", "ccacctinfo", "invacctinfo", "other"}

RECURSIVE KindSeqs(_)
KindSeqs(n) ==
    IF n = 0 THEN {<<>>}
    ELSE {<<kind>> \o rest : kind \in AcctInfoKinds, rest \in KindSeqs(n - 1)}

TheFI == [org |-> "BANK", fid |-> "1234"]

Documents ==
    [ fi : {None, Some(TheFI)},
      stmtrs : 0..MaxStatements,
      ccstmtrs : 0..1,
      invstmtrs : 0..1,
      acctinfo : UNION {KindSeqs(n) : n \in 0..MaxAcctInfo} ]

InitInst ==
    /\ ClientInit
    /\ ofx_version = "220"
    /\ CleanIdle
    /\ DecIdle
    /\ ParseIdle
    /\ fn = ""
    /\ arg \in Documents
    /\ ret = <<>>

ParseAccountInfo == Call("parse_account_info", parse_account_info(arg))

ParseOfxInstitution == Call("parse_ofx", ParseOfxAccounts(arg))

NextInst == ParseAccountInfo \/ ParseOfxInstitution

SpecInst == InitInst /\ [][NextInst]_vars

(***************************************************************************)
(* Claims about the institution (SpecInst).                                *)
(***************************************************************************)
\* The ACCTINFO nodes that hold an account.
AccountInfos(doc) ==
    {i \in 1..Len(doc.acctinfo) : doc.acctinfo[i] # "other"}

\* C16: the parse of a document with an FI node gives every account of the
\* document, those of the statements and those of every ACCTINFO up to the
\* last, with the organization and fid of that node as its institution.
C16_EveryAccountHasInstitution ==
    (fn = "parse_ofx" /\ arg.fi # None) =>
        /\ ret.raised = ""
        /\ Len(ret.accounts) = arg.stmtrs + arg.ccstmtrs + arg.invstmtrs
                                   + Cardinality(AccountInfos(arg))
        /\ \A i \in 1..Len(ret.accounts) :
               ret.accounts[i].institution
                   = Some([organization |-> "BANK", fid |-> "1234"])

(***************************************************************************)
(* Claims about the order and the optional fields of transactions          *)
(* (SpecParse).                                                            *)
(***************************************************************************)
\* What the parser that ran extracts from one node.
Extracted(impl, node) ==
    IF impl \in {"yofx", "yofx.parse_statement"} THEN yofx_parse_transaction(node)
    ELSE parse_transaction(node)

\* The positions of the nodes that extract successfully, in document order.
RECURSIVE Successes(_, _, _)
Successes(impl, nodes, i) ==
    IF i > Len(nodes) THEN <<>>
    ELSE (IF Extracted(impl, nodes[i]).raised = "" THEN <<i>> ELSE <<>>)
             \o Successes(impl, nodes, i + 1)

\* C17: the transactions of a parsed statement are the successfully
\* extracted STMTTRN nodes in document order, none duplicated or dropped.
C17_DocumentOrder ==
    p_pc = "returned" =>
        LET kept == Successes(p_impl, p_doc, 1)
        IN /\ Len(p_result.transactions) = Len(kept)
           /\ \A k \in 1..Len(kept) :
                  p_result.transactions[k] = Extracted(p_impl, p_doc[kept[k]]).txn

\* A lenient parse_statement returned two different transactions that stood
\* on either side of a node that failed.
C17_Witness ==
    /\ p_pc = "returned"
    /\ p_impl = "ofxclient.parse_statement"
    /\ Len(p_doc) = 3
    /\ Len(p_result.discarded_entries) = 1
    /\ Len(p_result.transactions) = 2
    /\ p_result.transactions[1] # p_result.transactions[2]
    /\ p_result.transactions[1] = parse_transaction(p_doc[1]).txn

\* The required fields of a node extract: TRNAMT, DTPOSTED and FITID.
RequiredOk(node) ==
    TxId(TxDate(TxAmount(Extracting(DefaultTransaction), node), node), node).raised = ""

\* C18: an optional field (DTUSER, SIC, CHECKNUM, MEMO) that is absent, empty
\* or fails its transform never rejects the transaction: a node whose
\* required fields extract yields a Transaction.
C18_OptionalFieldsTolerated ==
    (p_pc # "call" /\ Len(p_doc) = 1 /\ RequiredOk(p_doc[1])) =>
        /\ p_pc = "returned"
        /\ Len(p_result.transactions) = 1

(***************************************************************************)
(* SpecPos: the positions of one investment statement node,                *)
(* ofxclient/parse.py:646-659.  A position node is its tag name and the    *)
(* function from the names of its children, in lower case as html.parser   *)
(* gives them, to their texts.                                             *)
(***************************************************************************)
\* TX_TYPES, ofxclient/parse.py:16-22
TX_TYPES == <<"posmf", "posstock", "posopt", "posother", "posdebt">>

\* Position(), ofxclient/parse.py:293-298; date stands for the attribute
\* that parse_investment_position may add.
DefaultPosition ==
    [ security |-> <<>>, units |-> DecimalZero, unit_price |-> DecimalZero,
      market_value |-> DecimalZero, date |-> None ]

Pos(position) == [raised |-> "", position |-> position]
PosRaise(class) == [raised |-> class, position |-> DefaultPosition]

\* position.<field> = to_decimal(tag), d being what to_decimal did
PosSetDecimal(st, field, d) ==
    IF d.raised # "" THEN PosRaise(d.raised)
    ELSE Pos([st.position EXCEPT ![field] = d.value])

\* lines 542-550 for one of units, unitprice and mktval: tag.contents[0] of
\* an element without contents is an IndexError
PosDecimal(st, node, tag, field) ==
    IF st.raised # "" \/ ~HasChild(node, tag) THEN st
    ELSE IF node[tag] = <<>> THEN PosRaise("IndexError")
    ELSE PosSetDecimal(st, field, to_decimal(node[tag]))

\* lines 539-541
PosSecurity(st, node) ==
    IF st.raised # "" \/ ~HasChild(node, "uniqueid") THEN st
    ELSE IF node["uniqueid"] = <<>> THEN PosRaise("IndexError")
    ELSE Pos([st.position EXCEPT !.security = Strip(node["uniqueid"])])

\* lines 553-556, d being what parse_ofx_date did
PosSetDate(st, d) ==
    IF d.raised # "" THEN PosRaise(d.raised)
    ELSE Pos([st.position EXCEPT !.date = d.value])

\* lines 551-556
PosDate(st, node) ==
    IF st.raised # "" \/ ~HasChild(node, "dtpriceasof") THEN st
    ELSE IF node["dtpriceasof"] = <<>> THEN PosRaise("IndexError")
    ELSE PosSetDate(st, parse_ofx_date(Strip(node["dtpriceasof"])))

\* parse_investment_position, ofxclient/parse.py:536-557
parse_investment_position(node) ==
    PosDate(PosDecimal(PosDecimal(PosDecimal(PosSecurity(
        Pos(DefaultPosition), node),
        node, "units", "units"),
        node, "unitprice", "unit_price"),
        node, "mktval", "market_value"),
        node)

\* node.findAll(transaction_type): the position nodes of that name, in
\* document order
findAll(nodes, name) == SelectSeq(nodes, LAMBDA n : n.name = name)

\* InvestmentStatement(), ofxclient/parse.py:247-253
EmptyInvestmentStatement == [positions |-> <<>>, discarded_entries |-> <<>>]

RECURSIVE PositionLoop(_, _, _)

\* Lines 649-650 for node i of those found, p being what
\* parse_investment_position did with it.
PositionStep(statement, found, i, p) ==
    IF p.raised # "" THEN [raised |-> p.raised, statement |-> statement]
    ELSE PositionLoop([statement EXCEPT !.positions = Append(@, p.position)], found, i + 1)

\* The inner loop of lines 648-650, from node i on: the statement, or the
\* exception that left the loop.
PositionLoop(statement, found, i) ==
    IF i > Len(found) THEN [raised |-> "", statement |-> statement]
    ELSE PositionStep(statement, found, i, parse_investment_position(found[i].children))

RECURSIVE TypeLoop(_, _, _)

\* Lines 651-659, r being what the inner loop did.  The handler tests
\* fail_fast, a name that parse_investment_statement binds nowhere, before
\* it records anything: NameError.  An exception the except clause does not
\* name goes up as it is.
TypeStep(nodes, k, r) ==
    IF r.raised = "" THEN TypeLoop(r.statement, nodes, k + 1)
    ELSE IF r.raised \in {"ValueError", "IndexError", "InvalidOperation", "TypeError"}
    THEN [raised |-> "NameError", statement |-> r.statement]
    ELSE r

\* The loop over TX_TYPES of lines 646-659, from type k on
TypeLoop(statement, nodes, k) ==
    IF k > Len(TX_TYPES) THEN [raised |-> "", statement |-> statement]
    ELSE TypeStep(nodes, k, PositionLoop(statement, findAll(nodes, TX_TYPES[k]), 1))

\* parse_investment_statement, ofxclient/parse.py:611-720, for a statement
\* node that holds position nodes only
parse_investment_statement(nodes) == TypeLoop(EmptyInvestmentStatement, nodes, 1)

\* UNIQUEID=X, UNITS=1, UNITPRICE=2, MKTVAL=2, DTPRICEASOF=20230101
GoodPosition ==
    ("uniqueid" :> <<"X">>) @@ ("units" :> <<"1">>) @@ ("unitprice" :> <<"2">>)
        @@ ("mktval" :> <<"2">>)
        @@ ("dtpriceasof" :> <<"2", "0", "2", "3", "0", "1", "0", "1">>)

\* The children of the position nodes of the model: the one above, and it
\* with units that are no number, with no units text, with a date that is
\* none, and without a date.
PositionShapes ==
    { GoodPosition,
      With(GoodPosition, "units", <<"1", ",", "0", ",", "0">>),
      With(GoodPosition, "units", <<>>),
      With(GoodPosition, "dtpriceasof", <<"2", "0", "2", "3">>),
      Without(GoodPosition, "dtpriceasof") }

PositionNodes ==
    { [name |-> TX_TYPES[k], children |-> c] : k \in 1..Len(TX_TYPES), c \in PositionShapes }

RECURSIVE PositionSeqs(_)
PositionSeqs(n) ==
    IF n = 0 THEN {<<>>}
    ELSE {<<node>> \o rest : node \in PositionNodes, rest \in PositionSeqs(n - 1)}

InitPos ==
    /\ ClientInit
    /\ ofx_version = "220"
    /\ CleanIdle
    /\ DecIdle
    /\ ParseIdle
    /\ fn = ""
    /\ arg \in UNION {PositionSeqs(n) : n \in 0..MaxPositions}
    /\ ret = <<>>

\* parse_investment_statement(node), reached from parse_ofx through
\* parse_investment_accounts whatever fail_fast parse_ofx was given
ParseInvestmentStatement ==
    Call("parse_investment_statement", parse_investment_statement(arg))

NextPos == ParseInvestmentStatement

SpecPos == InitPos /\ [][NextPos]_vars

\* The position nodes of a statement that parse_investment_position rejects.
FailingPositions(nodes) ==
    {i \in 1..Len(nodes) : parse_investment_position(nodes[i].children).raised # ""}

\* C26: an extraction failure on one position node discards only that node:
\* the parse returns, every failing node is in discarded_entries, and every
\* other position node, those after a failing one included, is in positions.
C26_OnlyFailingPositionDiscarded ==
    fn = "parse_investment_statement" =>
        /\ ret.raised = ""
        /\ Len(ret.statement.positions) = Len(arg) - Cardinality(FailingPositions(arg))
        /\ \A i \in FailingPositions(arg) :
               \E k \in 1..Len(ret.statement.discarded_entries) :
                   ret.statement.discarded_entries[k].content = arg[i]

(***************************************************************************)
(* SpecHdr: the header block of a document (yofx/parse.py).  The character *)
(* "\n" ends a line; it is the only line boundary in the texts of the      *)
(* model, and the space their only white space.                            *)
(***************************************************************************)
\* The first position of c in str at or after i, Len(str) + 1 without one.
RECURSIVE IndexFrom(_, _, _)
IndexFrom(str, c, i) ==
    IF i > Len(str) \/ str[i] = c THEN i ELSE IndexFrom(str, c, i + 1)

\* str.split(c): the pieces between the occurrences of c
RECURSIVE SplitOn(_, _)
SplitOn(str, c) ==
    LET k == IndexFrom(str, c, 1)
    IN IF k > Len(str) THEN <<str>>
       ELSE <<SubSeq(str, 1, k - 1)>> \o SplitOn(SubSeq(str, k + 1, Len(str)), c)

\* str.splitlines(): no line for the empty text, none after a final "\n"
splitlines(str) ==
    IF str = <<>> THEN <<>>
    ELSE IF str[Len(str)] = "\n" THEN SplitOn(SubSeq(str, 1, Len(str) - 1), "\n")
    ELSE SplitOn(str, "\n")

\* rv[header] = value on an OrderedDict kept as the sequence of its items:
\* a key that is there keeps its place.
SetItem(rv, header, value) ==
    IF \E i \in 1..Len(rv) : rv[i].name = header
    THEN [i \in 1..Len(rv) |-> IF rv[i].name = header
                               THEN [name |-> header, value |-> value] ELSE rv[i]]
    ELSE Append(rv, [name |-> header, value |-> value])

\* The loop of extract_headers, yofx/parse.py:90-97, from line i on.
RECURSIVE HeaderLoop(_, _, _)
HeaderLoop(rv, lines, i) ==
    IF i > Len(lines) \/ Strip(lines[i]) = <<>> THEN [raised |-> "", value |-> rv]
    ELSE LET parts == SplitOn(lines[i], ":")
         IN IF Len(parts) # 2 THEN [raised |-> "ValueError", value |-> <<>>]
            ELSE HeaderLoop(SetItem(rv, Upper(Strip(parts[1])), Strip(parts[2])),
                            lines, i + 1)

\* extract_headers, yofx/parse.py:81-99.  The loop of lines 84-86 leaves
\* index at the first "<", at the last character when there is none, and
\* unbound for the empty text.
extract_headers(text) ==
    LET first == IndexFrom(text, "<", 1)
        index == IF first > Len(text) THEN Len(text) - 1 ELSE first - 1
    IN IF text = <<>> THEN [raised |-> "UnboundLocalError", value |-> <<>>]
       ELSE HeaderLoop(<<>>, splitlines(SubSeq(text, 1, index)), 1)

\* extract_headers, ofxclient/parse.py:95-115.  Its first statement (line
\* 97) reads self.fh in a module-level function: self is bound nowhere, so
\* the call raises NameError before it looks at ofx_str.
ofxclient_extract_headers(text) == [raised |-> "NameError", value |-> <<>>]

\* clean_headers, yofx/parse.py:37-44
clean_headers(headers) ==
    [i \in 1..Len(headers) |->
        [ name  |-> headers[i].name,
          value |-> IF Upper(headers[i].value) = <<"N", "O", "N", "E">> THEN None
                    ELSE Some(headers[i].value) ]]

\* The lines of the model: headers, a repeated name in another case, NONE
\* in three cases, spaces around the parts, a blank line, a value with a
\* colon in it.
HeaderLines ==
    { <<"A", ":", "1">>,
      <<"a", ":", "2">>,
      <<"B", ":", "N", "O", "N", "E">>,
      <<"B", ":", "n", "o", "n", "e">>,
      <<"C", ":", "N", "o", "N", "e">>,
      <<" ", "D", " ", ":", " ", "x", " ">>,
      <<>>,
      <<"E", ":", "1", ":", "2">> }

RECURSIVE LinesOfLen(_)
LinesOfLen(n) ==
    IF n = 0 THEN {<<>>}
    ELSE {line \o <<"\n">> \o rest : line \in HeaderLines, rest \in LinesOfLen(n - 1)}

\* What follows the lines: the first tag, or nothing.
HeaderTails == {<<"<", "O", "F", "X", ">">>, <<>>}

HeaderTexts == {lines \o tail : lines \in UNION {LinesOfLen(n) : n \in 0..MaxLines},
                                 tail \in HeaderTails}

InitHdr ==
    /\ ClientInit
    /\ ofx_version = "220"
    /\ CleanIdle
    /\ DecIdle
    /\ ParseIdle
    /\ fn = ""
    /\ arg \in HeaderTexts
    /\ ret = <<>>

ExtractHeaders == Call("extract_headers", extract_headers(arg))

\* clean_headers applied to the headers that extract_headers returned
CleanHeaders ==
    /\ fn = "extract_headers"
    /\ ret.raised = ""
    /\ fn' = "clean_headers"
    /\ ret' = [raised |-> "", value |-> clean_headers(ret.value)]
    /\ UNCHANGED arg
    /\ UNCHANGED <<clientVars, postVars, cleanVars, decVars, parseVars>>

OfxclientExtractHeaders ==
    Call("ofxclient.extract_headers", ofxclient_extract_headers(arg))

NextHdr == ExtractHeaders \/ CleanHeaders \/ OfxclientExtractHeaders

SpecHdr == InitHdr /\ [][NextHdr]_vars

(***************************************************************************)
(* Claims about the header block (SpecHdr).                                *)
(***************************************************************************)
\* The lines in front of the first "<" that are NAME:VALUE lines: those with
\* a colon in them.
LinesBeforeTag(text) == splitlines(SubSeq(text, 1, IndexFrom(text, "<", 1) - 1))

\* One entry per such line, in input order, the last value winning: the
\* name is what stands before the first colon, the value what follows it.
RECURSIVE EntriesFrom(_, _, _)
EntriesFrom(rv, lines, i) ==
    IF i > Len(lines) THEN rv
    ELSE IF ~Contains(lines[i], ":") THEN EntriesFrom(rv, lines, i + 1)
    ELSE LET colon == IndexFrom(lines[i], ":", 1)
         IN EntriesFrom(SetItem(rv, Upper(Strip(SubSeq(lines[i], 1, colon - 1))),
                                Strip(SubSeq(lines[i], colon + 1, Len(lines[i])))),
                        lines, i + 1)

\* C19: extract_headers gives one entry for every NAME:VALUE line in front
\* of the first "<", in input order, the last value winning for a repeated
\* name; clean_headers makes every value that is NONE in any letter case
\* absent and leaves the others.
C19_EveryHeaderLine ==
    /\ fn = "extract_headers" =>
           ret = [raised |-> "", value |-> EntriesFrom(<<>>, LinesBeforeTag(arg), 1)]
    /\ fn = "clean_headers" =>
           /\ Len(ret.value) = Len(extract_headers(arg).value)
           /\ \A i \in 1..Len(ret.value) :
                  LET before == extract_headers(arg).value[i]
                  IN /\ ret.value[i].name = before.name
                     /\ ret.value[i].value =
                            (IF Upper(before.value) = <<"N", "O", "N", "E">> THEN None
                             ELSE Some(before.value))

\* C30: header extraction is total on bodies without markup: for the empty
\* text and for every text that holds no "<", extract_headers (of either
\* iteration) returns a mapping and does not raise.
C30_TotalWithoutMarkup ==
    (fn \in {"extract_headers", "ofxclient.extract_headers"} /\ ~Contains(arg, "<"))
        => ret.raised = ""

(***************************************************************************)
(* SpecCharset: decode_headers applied to the headers of a file read as    *)
(* bytes.  A byte below 0x80 is written as its ASCII character, a byte     *)
(* from 0x80 on as "x" and its two hex digits; a character of a decoded    *)
(* text outside ASCII is written "U+" and its code point.  The headers are *)
(* the sequence of the items of the OrderedDict.                           *)
(***************************************************************************)
\* The bytes from 0x80 on that occur in the headers of the model.
HighBytes == {"x81", "xA9", "xC3", "xE9"}

\* bytes.decode("ascii", "replace")
AsciiReplace(bytes) ==
    [i \in 1..Len(bytes) |-> IF bytes[i] \in HighBytes THEN "U+FFFD" ELSE bytes[i]]

\* iso-8859-1: every byte is the code point of its value
Latin1Of == [b \in HighBytes |->
                CASE b = "x81" -> "U+0081" [] b = "xA9" -> "U+00A9"
                  [] b = "xC3" -> "U+00C3" [] b = "xE9" -> "U+00E9"]

\* cp1252 has no character for the byte 0x81
Cp1252Undefined == {"x81"}

\* utf-8: the sequences of high bytes of the model that encode a character
Utf8Of ==
    (<<"xC3", "x81">> :> "U+00C1") @@ (<<"xC3", "xA9">> :> "U+00E9")
        @@ (<<"xE9", "x81", "x81">> :> "U+9041") @@ (<<"xE9", "x81", "xA9">> :> "U+9069")
        @@ (<<"xE9", "xA9", "x81">> :> "U+9A41") @@ (<<"xE9", "xA9", "xA9">> :> "U+9A69")

\* bytes.decode("utf-8") from byte i on: the text, or <<"error">> in front
\* of what was decoded when a byte starts no valid sequence.
RECURSIVE Utf8From(_, _)
Utf8From(bytes, i) ==
    IF i > Len(bytes) THEN <<>>
    ELSE IF bytes[i] \notin HighBytes THEN <<bytes[i]>> \o Utf8From(bytes, i + 1)
    ELSE LET width == IF bytes[i] = "xC3" THEN 2 ELSE 3
             group == SubSeq(bytes, i, i + width - 1)
         IN IF i + width - 1 <= Len(bytes) /\ group \in DOMAIN Utf8Of
            THEN <<Utf8Of[group]>> \o Utf8From(bytes, i + width)
            ELSE <<"error">>

\* bytes.decode(encoding): the text, or the exception.
Decode(bytes, encoding) ==
    IF encoding = <<"i", "s", "o", "-", "8", "8", "5", "9", "-", "1">> THEN
        [raised |-> "", text |-> [i \in 1..Len(bytes) |->
            IF bytes[i] \in HighBytes THEN Latin1Of[bytes[i]] ELSE bytes[i]]]
    ELSE IF encoding = <<"c", "p", "1", "2", "5", "2">> THEN
        (IF \E i \in 1..Len(bytes) : bytes[i] \in Cp1252Undefined
         THEN [raised |-> "UnicodeDecodeError", text |-> <<>>]
         ELSE [raised |-> "", text |-> [i \in 1..Len(bytes) |->
                  IF bytes[i] \in HighBytes THEN Latin1Of[bytes[i]] ELSE bytes[i]]])
    ELSE IF encoding = <<"u", "t", "f", "-", "8">> THEN
        (IF Contains(Utf8From(bytes, 1), "error")
         THEN [raised |-> "UnicodeDecodeError", text |-> <<>>]
         ELSE [raised |-> "", text |-> Utf8From(bytes, 1)])
    ELSE [raised |-> "LookupError", text |-> <<>>]

\* ascii_headers.get(name), None without the header
GetHeader(headers, name) ==
    IF \E i \in 1..Len(headers) : headers[i].name = name
    THEN Some(headers[CHOOSE i \in 1..Len(headers) : headers[i].name = name].value)
    ELSE None

\* lines 52-57: every key and value decoded as ASCII, bad bytes replaced
AsciiHeaders(headers) ==
    [i \in 1..Len(headers) |-> [name  |-> AsciiReplace(headers[i].name),
                                value |-> AsciiReplace(headers[i].value)]]

\* lines 74-76: every key and value decoded with the encoding
DecodeAll(headers, encoding) ==
    LET failed == {i \in 1..Len(headers) :
                      \/ Decode(headers[i].name, encoding).raised # ""
                      \/ Decode(headers[i].value, encoding).raised # ""}
        first == CHOOSE i \in failed : \A j \in failed : i <= j
    IN IF failed # {}
       THEN [raised |-> IF Decode(headers[first].name, encoding).raised # ""
                        THEN Decode(headers[first].name, encoding).raised
                        ELSE Decode(headers[first].value, encoding).raised,
             value |-> <<>>]
       ELSE [raised |-> "",
             value |-> [i \in 1..Len(headers) |->
                          [name  |-> Decode(headers[i].name, encoding).text,
                           value |-> Decode(headers[i].value, encoding).text]]]

\* decode_headers, yofx/parse.py:47-78.  No branch binds encoding for an
\* <<"E", "N", "C", "O", "D", "I", "N", "G">> other than <<"U", "S", "A", "S", "C", "I", "I">>, <<"U", "N", "I", "C", "O", "D", "E">> and UTF-8.
decode_headers(headers) ==
    LET ascii_headers == AsciiHeaders(headers)
        enc_type == GetHeader(ascii_headers, <<"E", "N", "C", "O", "D", "I", "N", "G">>)
        charset  == GetHeader(ascii_headers, <<"C", "H", "A", "R", "S", "E", "T">>)
        cp       == IF charset = None THEN <<"1", "2", "5", "2">> ELSE charset[1]
    IN IF enc_type = None \/ enc_type = Some(<<>>)
       THEN [raised |-> "", value |-> ascii_headers]
       ELSE IF enc_type[1] \in {<<"U", "N", "I", "C", "O", "D", "E">>, <<"U", "T", "F", "-", "8">>} THEN DecodeAll(headers, <<"u", "t", "f", "-", "8">>)
       ELSE IF enc_type[1] = <<"U", "S", "A", "S", "C", "I", "I">>
       THEN DecodeAll(headers, IF cp = <<"8", "8", "5", "9", "-", "1">> THEN <<"i", "s", "o", "-", "8", "8", "5", "9", "-", "1">> ELSE <<"c", "p">> \o cp)
       ELSE [raised |-> "UnboundLocalError", value |-> <<>>]

EncodingValues == {<<>>, <<"U", "S", "A", "S", "C", "I", "I">>, <<"U", "N", "I", "C", "O", "D", "E">>, <<"U", "T", "F", "-", "8">>, <<"U", "T", "F", "8">>, <<"u", "s", "a", "s", "c", "i", "i">>}
CharsetValues == {<<"1", "2", "5", "2">>, <<"8", "8", "5", "9", "-", "1">>, <<"N", "O", "N", "E">>, <<"I", "S", "O", "-", "8", "8", "5", "9", "-", "1">>}

\* The value of an <<"O", "R", "G">> header: ASCII, Latin-1 and UTF-8 spellings of
\* "Cafe" with an accent, and a byte that cp1252 does not define.
OrgValues == { <<"C", "a", "f", "e">>, <<"C", "a", "f", "xE9">>, <<"C", "a", "f", "xC3", "xA9">>,
               <<"x81">> }

Item(name, value) == <<[name |-> name, value |-> value]>>

HeaderDicts ==
    { encoding \o charset \o Item(<<"O", "R", "G">>, org) :
        encoding \in {<<>>} \cup {Item(<<"E", "N", "C", "O", "D", "I", "N", "G">>, v) : v \in EncodingValues},
        charset \in {<<>>} \cup {Item(<<"C", "H", "A", "R", "S", "E", "T">>, v) : v \in CharsetValues},
        org \in OrgValues }

InitCharset ==
    /\ ClientInit
    /\ ofx_version = "220"
    /\ CleanIdle
    /\ DecIdle
    /\ ParseIdle
    /\ fn = ""
    /\ arg \in HeaderDicts
    /\ ret = <<>>

DecodeHeaders == Call("decode_headers", decode_headers(arg))

NextCharset == DecodeHeaders

SpecCharset == InitCharset /\ [][NextCharset]_vars

(***************************************************************************)
(* Claims about character-set resolution (SpecCharset).                    *)
(***************************************************************************)
\* The <<"E", "N", "C", "O", "D", "I", "N", "G">> and the <<"C", "H", "A", "R", "S", "E", "T">> of the headers, None when missing.
EncodingOf(headers) == GetHeader(headers, <<"E", "N", "C", "O", "D", "I", "N", "G">>)
CharsetOf(headers) == GetHeader(headers, <<"C", "H", "A", "R", "S", "E", "T">>)

\* C20: decode_headers never fails: <<"U", "S", "A", "S", "C", "I", "I">> with <<"C", "H", "A", "R", "S", "E", "T">> 1252 selects
\* Windows-1252, <<"C", "H", "A", "R", "S", "E", "T">> 8859-1 selects Latin-1, <<"E", "N", "C", "O", "D", "I", "N", "G">> <<"U", "N", "I", "C", "O", "D", "E">> or UTF-8
\* selects UTF-8, and every other or missing <<"E", "N", "C", "O", "D", "I", "N", "G">> gives the ASCII
\* decoding of the headers.
C20_CharsetNeverFails ==
    fn = "decode_headers" =>
        /\ ret.raised = ""
        /\ (EncodingOf(arg) = Some(<<"U", "S", "A", "S", "C", "I", "I">>) /\ CharsetOf(arg) = Some(<<"1", "2", "5", "2">>))
               => ret = DecodeAll(arg, <<"c", "p", "1", "2", "5", "2">>)
        /\ (EncodingOf(arg) = Some(<<"U", "S", "A", "S", "C", "I", "I">>) /\ CharsetOf(arg) = Some(<<"8", "8", "5", "9", "-", "1">>))
               => ret = DecodeAll(arg, <<"i", "s", "o", "-", "8", "8", "5", "9", "-", "1">>)
        /\ (EncodingOf(arg) \in {Some(<<"U", "N", "I", "C", "O", "D", "E">>), Some(<<"U", "T", "F", "-", "8">>)})
               => ret = DecodeAll(arg, <<"u", "t", "f", "-", "8">>)
        /\ (EncodingOf(arg) \notin {Some(<<"U", "S", "A", "S", "C", "I", "I">>), Some(<<"U", "N", "I", "C", "O", "D", "E">>), Some(<<"U", "T", "F", "-", "8">>)})
               => ret.value = AsciiHeaders(arg)

(***************************************************************************)
(* SpecCookie: Client.next_cookie (client.py:313-315) called by the        *)
(* callers that share one Client, with no lock.  self.cookie += 1 loads    *)
(* the attribute, adds, and stores it; return str(self.cookie) loads it    *)
(* again.  Another caller may run between any two of these steps.          *)
(***************************************************************************)
\* str(n) for a natural number
RECURSIVE Str(_)
Str(n) ==
    IF n < 10 THEN <<Digits[n + 1]>>
    ELSE Str(n \div 10) \o <<Digits[(n % 10) + 1]>>

\* line 314, the load of self.cookie
LoadCookie(c) ==
    /\ callers[c].at = "idle"
    /\ callers[c].returned = <<>>
    /\ callers' = [callers EXCEPT ![c].at = "loaded", ![c].loaded = cookie]
    /\ UNCHANGED <<cookie, ofx_version, uid_count, built>>
    /\ UNCHANGED <<postVars, cleanVars, decVars, parseVars, callVars>>

\* line 314, the store of the incremented value
StoreCookie(c) ==
    /\ callers[c].at = "loaded"
    /\ cookie' = next_cookie(callers[c].loaded)
    /\ callers' = [callers EXCEPT ![c].at = "stored"]
    /\ UNCHANGED <<ofx_version, uid_count, built>>
    /\ UNCHANGED <<postVars, cleanVars, decVars, parseVars, callVars>>

\* line 315, return str(self.cookie)
ReturnCookie(c) ==
    /\ callers[c].at = "stored"
    /\ callers' = [callers EXCEPT ![c].at = "idle",
                                  ![c].returned = Append(@, Str(cookie))]
    /\ UNCHANGED <<cookie, ofx_version, uid_count, built>>
    /\ UNCHANGED <<postVars, cleanVars, decVars, parseVars, callVars>>

InitCookie ==
    /\ ClientInit
    /\ ofx_version = "220"
    /\ CleanIdle
    /\ DecIdle
    /\ ParseIdle
    /\ CallIdle

NextCookie == \E c \in Callers : LoadCookie(c) \/ StoreCookie(c) \/ ReturnCookie(c)

SpecCookie == InitCookie /\ [][NextCookie]_vars

(***************************************************************************)
(* Claims about the message counter under concurrent callers (SpecCookie). *)
(***************************************************************************)
\* The calls of next_cookie that have stored their value.
RECURSIVE StoresUpTo(_)
StoresUpTo(c) ==
    IF c = 0 THEN 0
    ELSE StoresUpTo(c - 1) + Len(callers[c].returned)
             + (IF callers[c].at = "stored" THEN 1 ELSE 0)

\* C25: next_cookie is an unsynchronized load, increment and store: the
\* counter has advanced by at least one and by at most the number of calls
\* that stored (by fewer when a store overwrote another), every value
\* returned is the text of a value the counter has held, and two calls can
\* return the same value.
C25_UnsynchronizedCounter ==
    /\ cookie <= InitialCookie + StoresUpTo(MaxCallers)
    /\ StoresUpTo(MaxCallers) > 0 => cookie >= InitialCookie + 1
    /\ \A c \in Callers :
           /\ callers[c].at # "idle" => callers[c].loaded \in InitialCookie..(InitialCookie + StoresUpTo(MaxCallers))
           /\ \A k \in 1..Len(callers[c].returned) :
                  \E v \in (InitialCookie + 1)..(InitialCookie + StoresUpTo(MaxCallers)) :
                      callers[c].returned[k] = Str(v)

\* Two callers have each completed one call, both were returned "4", and
\* the counter went from 3 to 4: one of the two increments is lost.
C25_Witness ==
    /\ callers[1] = [at |-> "idle", loaded |-> InitialCookie, returned |-> <<Str(InitialCookie + 1)>>]
    /\ callers[2] = [at |-> "idle", loaded |-> InitialCookie, returned |-> <<Str(InitialCookie + 1)>>]
    /\ cookie = InitialCookie + 1

====
